---------------------------- MODULE Spec2Model ----------------------------
(***************************************************************************)
(* EV Eco-Speed Advisory App (src/app.py): the speed optimizer of the      *)
(* "Compute optimal speed" handler, the charging planner it calls, and the *)
(* pure functions under it: the physics of a leg and of a route, the       *)
(* environmental factors, the speed limits by road type, the per-leg       *)
(* speeds, the scan for intersections and the slowdown of legs, the        *)
(* electric power of the HVAC, the handling of the elevation profile and   *)
(* the body of the candidate loop.                                         *)
(*                                                                         *)
(* Numbers.  The program computes in Python floats.  The model computes    *)
(* the same expressions in exact rational arithmetic: a real is a record   *)
(* [n |-> numerator, d |-> denominator] in lowest terms with d > 0.  The   *)
(* rounding of IEEE-754 doubles is not modelled.  The haversine distance   *)
(* is the arc length between two points of one great circle.               *)
(*                                                                         *)
(* Optional values of the program (a variable not assigned yet) are        *)
(* sequences of length 0 or 1.                                             *)
(***************************************************************************)
EXTENDS Integers, Sequences, FiniteSets, TLC

(***************************************************************************)
(* Exact rational arithmetic standing for the float operators              *)
(***************************************************************************)
Abs(x) == IF x < 0 THEN -x ELSE x

RECURSIVE GCD(_, _)
GCD(a, b) == IF b = 0 THEN a ELSE GCD(b, a % b)

\* the real n/d, d # 0, in lowest terms
Rat(n, d) ==
    LET g == GCD(Abs(n), Abs(d))
        s == IF d < 0 THEN -1 ELSE 1
    IN  [n |-> (s * n) \div g, d |-> (s * d) \div g]

Int2R(k) == [n |-> k, d |-> 1]

\* common factors are divided out before the products are taken, which
\* keeps the intermediate integers small
RAdd(a, b) ==
    LET c == GCD(a.d, b.d)
    IN  Rat(a.n * (b.d \div c) + b.n * (a.d \div c), (a.d \div c) * b.d)
RSub(a, b) ==
    LET c == GCD(a.d, b.d)
    IN  Rat(a.n * (b.d \div c) - b.n * (a.d \div c), (a.d \div c) * b.d)
RMul(a, b) ==
    LET c1 == GCD(Abs(a.n), b.d)
        c2 == GCD(Abs(b.n), a.d)
    IN  [n |-> (a.n \div c1) * (b.n \div c2), d |-> (a.d \div c2) * (b.d \div c1)]
\* a / b, b # 0
RDiv(a, b) == RMul(a, Rat(b.d, b.n))
RLeq(a, b) == a.n * b.d <= b.n * a.d
RLt(a, b) == a.n * b.d < b.n * a.d
RMax(a, b) == IF RLt(a, b) THEN b ELSE a
\* math.ceil of a real: the least integer >= a
RCeil_truncating(a) == a.n \div a.d
RCeil(a) == -((-a.n) \div a.d)

(***************************************************************************)
(* Program constants                                                       *)
(***************************************************************************)
CHARGING_STOP_DURATION_MIN == 20
\* num_stops returned when the usable battery is not positive
INFEASIBLE_STOPS == 999
\* the two objectives of the "Objective" selectbox
MinimizeEnergy == "Minimize energy under time constraint"
WeightedScore == "Weighted score"


(***************************************************************************)
(* Charging planner: calculate_charging_stops                              *)
(***************************************************************************)
\* Python's a / b on floats: the quotient, or nothing when b = 0
\* (ZeroDivisionError)
PyDiv(a, b) == IF b.n = 0 THEN <<>> ELSE <<RDiv(a, b)>>

\* the plan returned by calculate_charging_stops; raised = TRUE stands for
\* an exception leaving the function instead of a return value
ChargeInfo(stops, usable, per_leg) ==
    [raised |-> FALSE, num_stops |-> stops, usable_battery |-> usable,
     energy_per_leg |-> per_leg]

ChargeRaised ==
    [raised |-> TRUE, num_stops |-> 0, usable_battery |-> Int2R(0),
     energy_per_leg |-> Int2R(0)]

\* if usable_battery <= 0
NoUsableBattery_strict(usable_battery) == RLt(usable_battery, Int2R(0))
NoUsableBattery(usable_battery) == RLeq(usable_battery, Int2R(0))

calculate_charging_stops(battery_kwh, energy_needed_kwh, start_pct, end_pct) ==
    LET usable_start_kwh == RMul(battery_kwh, Rat(start_pct, 100))
        target_end_kwh == RMul(battery_kwh, Rat(end_pct, 100))
        safety_margin == RMul(battery_kwh, Rat(10, 100))
        usable_battery == RSub(battery_kwh, safety_margin)
        energy_available ==
            RSub(usable_start_kwh, RMax(safety_margin, target_end_kwh))
        remaining_energy == RSub(energy_needed_kwh, energy_available)
        quotient == PyDiv(remaining_energy, usable_battery)
        num_stops == RCeil(quotient[1])
    IN  IF NoUsableBattery(usable_battery)
        THEN ChargeInfo(INFEASIBLE_STOPS, Int2R(0), usable_battery)
        ELSE IF RLeq(energy_needed_kwh, energy_available)
        THEN ChargeInfo(0, usable_battery, usable_battery)
        ELSE IF Len(quotient) = 0
        THEN ChargeRaised
        ELSE ChargeInfo(IF num_stops > 0 THEN num_stops ELSE 0,
                        usable_battery, usable_battery)

(***************************************************************************)
(* The result record of one candidate (run_btn, the tail of the loop body) *)
(***************************************************************************)
\* total_time_min_candidate = T_h * 60.0 + charging_time_min_candidate
TotalTimeMin_hours(T_h, charging_time_min) ==
    RAdd(T_h, Int2R(charging_time_min))
TotalTimeMin(T_h, charging_time_min) ==
    RAdd(RMul(T_h, Int2R(60)), Int2R(charging_time_min))

CandidateResult(v, E_Wh, T_h, battery_kwh, start_pct, end_pct) ==
    LET energy_kwh_candidate == RDiv(E_Wh, Int2R(1000))
        charge_info_candidate ==
            calculate_charging_stops(battery_kwh, energy_kwh_candidate,
                                     start_pct, end_pct)
        charging_time_min_candidate ==
            charge_info_candidate.num_stops * CHARGING_STOP_DURATION_MIN
        total_time_min_candidate ==
            TotalTimeMin(T_h, charging_time_min_candidate)
    IN  [speed |-> v,
         energy_Wh |-> E_Wh,
         time_h |-> T_h,
         energy_kwh |-> energy_kwh_candidate,
         charge_info |-> charge_info_candidate,
         charging_time_min |-> charging_time_min_candidate,
         total_time_min |-> total_time_min_candidate]

(***************************************************************************)
(* Python list helpers                                                     *)
(***************************************************************************)
\* a < b on two keys, each a tuple of floats of the same length (a single
\* float is a tuple of length 1): the order of Python tuples
RECURSIVE KeyLess(_, _)
KeyLess(a, b) ==
    IF Len(a) = 0 THEN FALSE
    ELSE IF Head(a) = Head(b) THEN KeyLess(Tail(a), Tail(b))
    ELSE RLt(Head(a), Head(b))

\* min(list, key=...) on the keys of a non-empty list: the index of the
\* first element no other element is smaller than
PyMin(keys) ==
    CHOOSE i \in 1..Len(keys) :
        /\ \A j \in 1..Len(keys) : ~KeyLess(keys[j], keys[i])
        /\ \A j \in 1..(i - 1) : KeyLess(keys[i], keys[j])

\* max(...): the index of the first element no other element is greater than
PyMax(keys) ==
    CHOOSE i \in 1..Len(keys) :
        /\ \A j \in 1..Len(keys) : ~KeyLess(keys[i], keys[j])
        /\ \A j \in 1..(i - 1) : KeyLess(keys[j], keys[i])

\* sorted(set): the elements of a finite set of integers, ascending
RECURSIVE Sorted(_)
Sorted(S) ==
    IF S = {} THEN <<>>
    ELSE LET m == CHOOSE x \in S : \A y \in S : x <= y
         IN  <<m>> \o Sorted(S \ {m})

(***************************************************************************)
(* Bounds of the model and the input sets drawn from them                  *)
(***************************************************************************)
\* number of distinct speeds the user may type in the candidate list
MaxCandidates == 3
\* number of 20 kWh steps of the energy need given to the planner
MaxEnergySteps == 6

\* the speeds the user may type: 50, 70, 90, ...
SpeedPool == {30 + 20 * k : k \in 1..MaxCandidates}
\* "Max speed on route" (number_input 50..130 step 10)
SpeedLimits == {50, 90, 130}
\* "Max time increase vs fastest speed (%)" (slider 0..50)
PenaltyPcts == {0, 20}
\* objective and lambda (slider 0..10 step 0.5); lambda is read under the
\* weighted objective only
Objectives ==
    {[target |-> MinimizeEnergy, lam |-> Int2R(2)]}
    \cup {[target |-> WeightedScore, lam |-> l] :
            l \in {Int2R(0), Rat(1, 2), Int2R(2)}}
\* battery at departure / target on arrival (sliders 20..100 and 5..90)
BatteryStates ==
    {[start_pct |-> 100, end_pct |-> 20], [start_pct |-> 20, end_pct |-> 90]}
\* veh: total mass, drivetrain efficiency, effective battery capacity;
\* the last three are the values the parameter validation rejects
Vehicles ==
    {[mass_kg |-> 1900, eta_drive |-> Rat(9, 10), battery_kwh |-> Int2R(60)],
     [mass_kg |-> 0, eta_drive |-> Rat(9, 10), battery_kwh |-> Int2R(60)],
     [mass_kg |-> 1900, eta_drive |-> Rat(11, 10), battery_kwh |-> Int2R(60)],
     [mass_kg |-> 1900, eta_drive |-> Int2R(0), battery_kwh |-> Int2R(60)]}

\* what the simulation of one candidate yields: the totals of
\* route_energy_time, or an exception
SimOk(E, T) == [ok |-> TRUE, E_Wh |-> E, T_h |-> T]
SimError == [ok |-> FALSE, E_Wh |-> Int2R(0), T_h |-> Int2R(0)]
\* placeholder for a speed the run never simulates
NotSimulated == SimOk(Int2R(0), Int2R(0))
SimOutcomes ==
    {SimOk(Int2R(10000), Int2R(1)),
     SimOk(Int2R(12000), Rat(11, 12)),
     SimOk(Int2R(15000), Rat(5, 6)),
     SimOk(Int2R(10000), Rat(5, 6)),
     SimOk(Int2R(12000), Int2R(1)),
     SimOk(Int2R(0), Int2R(0)),
     SimOk(Int2R(0 - 2000), Int2R(1)),
     SimError}

(***************************************************************************)
(* State                                                                   *)
(***************************************************************************)
VARIABLES
    \* inputs of a run of the "Compute optimal speed" handler
    veh, candidate_speeds, user_speed_limit, max_time_penalty_pct,
    minimize_target, lam, battery_start_pct, battery_end_pct,
    \* sim[v]: what simulating the route at candidate speed v yields
    sim,
    \* position in the handler and its locals
    pc, candidates, i, results, warnings, message,
    fastest_total_min, feasible, best, fastest, metrics,
    \* the pure functions applied to drawn arguments
    fn_pc, fn_in, charge_out, record_out, fn_out

inputVars ==
    <<veh, candidate_speeds, user_speed_limit, max_time_penalty_pct,
      minimize_target, lam, battery_start_pct, battery_end_pct, sim>>
runVars ==
    <<pc, candidates, i, results, warnings, message,
      fastest_total_min, feasible, best, fastest, metrics>>
fnVars == <<fn_pc, fn_in, charge_out, record_out, fn_out>>
vars == <<inputVars, runVars, fnVars>>

(***************************************************************************)
(* Speed optimizer: the handler of run_btn from the parameter validation   *)
(* to the output metrics                                                   *)
(***************************************************************************)
\* candidates = [v for v in candidate_speeds if v <= user_speed_limit],
\* the ceiling alone if that is empty
FilterCandidates_nofallback(speeds, limit) ==
    LET keep(v) == v <= limit
    IN  SelectSeq(speeds, keep)
FilterCandidates(speeds, limit) ==
    LET keep(v) == v <= limit
        kept == SelectSeq(speeds, keep)
    IN  IF kept = <<>> THEN <<limit>> ELSE kept

\* r["total_time_min"] for r in rs, and r["energy_Wh"] for r in rs
TotalTimes(rs) == [k \in 1..Len(rs) |-> <<rs[k].total_time_min>>]
Energies(rs) == [k \in 1..Len(rs) |-> <<rs[k].energy_Wh>>]

\* fastest_total_min = min(r["total_time_min"] for r in results)
FastestTotalMin_first(rs) == rs[1].total_time_min
FastestTotalMin(rs) == rs[PyMin(TotalTimes(rs))].total_time_min

\* (r["total_time_min"] / 60.0) <= max_time_h
WithinWindow_strict(total_time_min, max_time_h) ==
    RLt(RDiv(total_time_min, Int2R(60)), max_time_h)
WithinWindow(total_time_min, max_time_h) ==
    RLeq(RDiv(total_time_min, Int2R(60)), max_time_h)

\* the feasibility filter
FeasibleSet(rs, penalty_pct) ==
    LET fastest_min == FastestTotalMin(rs)
        fastest_total_h ==
            IF fastest_min.n # 0 THEN RDiv(fastest_min, Int2R(60))
            ELSE Int2R(0)
        max_time_h ==
            RMul(fastest_total_h, RAdd(Int2R(1), Rat(penalty_pct, 100)))
        within(r) == WithinWindow(r.total_time_min, max_time_h)
        kept == SelectSeq(rs, within)
    IN  IF RLt(Int2R(0), fastest_total_h)
        THEN IF kept = <<>> THEN rs ELSE kept
        ELSE rs

\* key=lambda r: (r["energy_Wh"], r["total_time_min"])
EnergyTimeKey_energyOnly(r) == <<r.energy_Wh>>
EnergyTimeKey(r) == <<r.energy_Wh, r.total_time_min>>

\* def norm(x, a, b): return 0.0 if a == b else (x - a) / (b - a)
norm_unscaled(x, a, b) == IF a = b THEN Int2R(0) ELSE RSub(x, a)
norm(x, a, b) == IF a = b THEN Int2R(0) ELSE RDiv(RSub(x, a), RSub(b, a))

\* norm(energy) + lam * norm(total time) over the feasible list
Score(r, fs, l) ==
    LET E_min == fs[PyMin(Energies(fs))].energy_Wh
        E_max == fs[PyMax(Energies(fs))].energy_Wh
        T_min == fs[PyMin(TotalTimes(fs))].total_time_min
        T_max == fs[PyMax(TotalTimes(fs))].total_time_min
    IN  RAdd(norm(r.energy_Wh, E_min, E_max),
             RMul(l, norm(r.total_time_min, T_min, T_max)))

SelectBest(fs, target, l) ==
    IF target = MinimizeEnergy
    THEN fs[PyMin([k \in 1..Len(fs) |-> EnergyTimeKey(fs[k])])]
    ELSE fs[PyMin([k \in 1..Len(fs) |-> <<Score(fs[k], fs, l)>>])]

\* the figures shown under "2) Results"
OutputMetrics(b, f) ==
    [advised_speed |-> b.speed,
     energy_needed_kwh |-> b.energy_kwh,
     charging_time_min |-> b.charging_time_min,
     best_driving_time_min |-> RMul(b.time_h, Int2R(60)),
     best_total_time_min |-> b.total_time_min,
     fastest_total_time_min |-> f.total_time_min]

\* the speeds whose simulation a run can ask for
Simulated(speeds, limit) ==
    IF \E v \in speeds : v <= limit THEN {v \in speeds : v <= limit}
    ELSE {limit}

RunStart ==
    /\ pc = "validate"
    /\ candidates = <<>>
    /\ i = 1
    /\ results = <<>>
    /\ warnings = <<>>
    /\ message = ""
    /\ fastest_total_min = <<>>
    /\ feasible = <<>>
    /\ best = <<>>
    /\ fastest = <<>>
    /\ metrics = <<>>

FnIdle ==
    /\ fn_pc = "off"
    /\ fn_in = <<>>
    /\ charge_out = <<>>
    /\ record_out = <<>>
    /\ fn_out = <<>>

Init ==
    /\ veh \in Vehicles
    /\ \E S \in SUBSET SpeedPool : candidate_speeds = Sorted(S)
    /\ user_speed_limit \in SpeedLimits
    /\ max_time_penalty_pct \in PenaltyPcts
    /\ \E o \in Objectives : minimize_target = o.target /\ lam = o.lam
    /\ \E b \in BatteryStates :
          battery_start_pct = b.start_pct /\ battery_end_pct = b.end_pct
    /\ LET typed == {candidate_speeds[k] : k \in 1..Len(candidate_speeds)}
           run == Simulated(typed, user_speed_limit)
       IN  \E f \in [run -> SimOutcomes] :
              sim = [v \in typed \cup {user_speed_limit} |->
                        IF v \in run THEN f[v] ELSE NotSimulated]
    /\ RunStart
    /\ FnIdle

\* lines 1084-1102, the parameters pass: go on to the candidate filter
AcceptVehicle_anyEfficiency ==
    /\ pc = "validate"
    /\ ~(veh.mass_kg <= 0)
    /\ pc' = "filter"
    /\ UNCHANGED <<candidates, i, results, warnings, message,
                   fastest_total_min, feasible, best, fastest, metrics>>
    /\ UNCHANGED <<inputVars, fnVars>>
AcceptVehicle ==
    /\ pc = "validate"
    /\ ~(veh.mass_kg <= 0 \/ RLeq(veh.eta_drive, Int2R(0))
            \/ RLt(Int2R(1), veh.eta_drive))
    /\ pc' = "filter"
    /\ UNCHANGED <<candidates, i, results, warnings, message,
                   fastest_total_min, feasible, best, fastest, metrics>>
    /\ UNCHANGED <<inputVars, fnVars>>

\* lines 1097-1099: st.error, st.stop
RejectVehicle ==
    /\ pc = "validate"
    /\ (veh.mass_kg <= 0 \/ RLeq(veh.eta_drive, Int2R(0))
            \/ RLt(Int2R(1), veh.eta_drive))
    /\ pc' = "stopped"
    /\ message' = "Invalid vehicle parameters"
    /\ UNCHANGED <<candidates, i, results, warnings,
                   fastest_total_min, feasible, best, fastest, metrics>>
    /\ UNCHANGED <<inputVars, fnVars>>

\* lines 1104-1111
LimitCandidates ==
    /\ pc = "filter"
    /\ candidates' = FilterCandidates(candidate_speeds, user_speed_limit)
    /\ results' = <<>>
    /\ i' = 1
    /\ pc' = "loop"
    /\ UNCHANGED <<warnings, message, fastest_total_min, feasible, best,
                   fastest, metrics>>
    /\ UNCHANGED <<inputVars, fnVars>>

\* one iteration of the loop of lines 1113-1154
SimulateCandidate_abort ==
    /\ pc = "loop"
    /\ i <= Len(candidates)
    /\ LET v == candidates[i]
           out == sim[v]
           rec == CandidateResult(v, out.E_Wh, out.T_h, veh.battery_kwh,
                                  battery_start_pct, battery_end_pct)
       IN  IF out.ok /\ ~rec.charge_info.raised
           THEN /\ results' = Append(results, rec)
                /\ warnings' = warnings
                /\ i' = i + 1
           ELSE /\ results' = results
                /\ warnings' = Append(warnings, v)
                /\ i' = Len(candidates) + 1
    /\ UNCHANGED <<pc, candidates, message, fastest_total_min, feasible,
                   best, fastest, metrics>>
    /\ UNCHANGED <<inputVars, fnVars>>
SimulateCandidate ==
    /\ pc = "loop"
    /\ i <= Len(candidates)
    /\ LET v == candidates[i]
           out == sim[v]
           rec == CandidateResult(v, out.E_Wh, out.T_h, veh.battery_kwh,
                                  battery_start_pct, battery_end_pct)
       IN  IF out.ok /\ ~rec.charge_info.raised
           THEN /\ results' = Append(results, rec)
                /\ warnings' = warnings
           ELSE /\ results' = results
                /\ warnings' = Append(warnings, v)
    /\ i' = i + 1
    /\ UNCHANGED <<pc, candidates, message, fastest_total_min, feasible,
                   best, fastest, metrics>>
    /\ UNCHANGED <<inputVars, fnVars>>

\* lines 1159-1161: st.error, st.stop
NoValidResult_fallthrough ==
    /\ pc = "loop"
    /\ i > Len(candidates)
    /\ results = <<>>
    /\ pc' = "done"
    /\ message' = "No valid result found"
    /\ UNCHANGED <<candidates, i, results, warnings,
                   fastest_total_min, feasible, best, fastest, metrics>>
    /\ UNCHANGED <<inputVars, fnVars>>
NoValidResult ==
    /\ pc = "loop"
    /\ i > Len(candidates)
    /\ results = <<>>
    /\ pc' = "stopped"
    /\ message' = "No valid result found"
    /\ UNCHANGED <<candidates, i, results, warnings,
                   fastest_total_min, feasible, best, fastest, metrics>>
    /\ UNCHANGED <<inputVars, fnVars>>

\* lines 1163-1207
Aggregate_early ==
    /\ pc = "loop"
    /\ results # <<>>
    /\ LET fs == FeasibleSet(results, max_time_penalty_pct)
           b == SelectBest(fs, minimize_target, lam)
           f == results[PyMin(TotalTimes(results))]
       IN  /\ fastest_total_min' = <<FastestTotalMin(results)>>
           /\ feasible' = fs
           /\ best' = <<b>>
           /\ fastest' = <<f>>
           /\ metrics' = <<OutputMetrics(b, f)>>
    /\ pc' = "done"
    /\ UNCHANGED <<candidates, i, results, warnings, message>>
    /\ UNCHANGED <<inputVars, fnVars>>
Aggregate ==
    /\ pc = "loop"
    /\ i > Len(candidates)
    /\ results # <<>>
    /\ LET fs == FeasibleSet(results, max_time_penalty_pct)
           b == SelectBest(fs, minimize_target, lam)
           f == results[PyMin(TotalTimes(results))]
       IN  /\ fastest_total_min' = <<FastestTotalMin(results)>>
           /\ feasible' = fs
           /\ best' = <<b>>
           /\ fastest' = <<f>>
           /\ metrics' = <<OutputMetrics(b, f)>>
    /\ pc' = "done"
    /\ UNCHANGED <<candidates, i, results, warnings, message>>
    /\ UNCHANGED <<inputVars, fnVars>>

Next ==
    \/ AcceptVehicle
    \/ RejectVehicle
    \/ LimitCandidates
    \/ SimulateCandidate
    \/ NoValidResult
    \/ Aggregate

Spec == Init /\ [][Next]_vars

(***************************************************************************)
(* The charging planner and the result record as pure functions of drawn   *)
(* arguments                                                               *)
(***************************************************************************)
\* battery_kwh: also capacities no vehicle profile has (zero, negative)
BatteryCapacities ==
    {Int2R(0 - 10), Int2R(0), Int2R(20), Int2R(60), Rat(291, 5)}
\* the energy of the trip, kWh
EnergyNeeds ==
    {20 * k : k \in 0..MaxEnergySteps} \cup {48, 54, 108, 109}
StartPcts == {20, 60, 100}
EndPcts == {5, 10, 20, 90}
DrivingTimes == {Int2R(0), Rat(5, 6), Int2R(1)}

FnInputs ==
    [battery_kwh : BatteryCapacities,
     energy_Wh : {Int2R(1000 * e) : e \in EnergyNeeds},
     T_h : DrivingTimes,
     start_pct : StartPcts,
     end_pct : EndPcts]

\* the optimizer is not running
RunIdle ==
    /\ veh = [mass_kg |-> 1900, eta_drive |-> Rat(9, 10),
              battery_kwh |-> Int2R(60)]
    /\ candidate_speeds = <<>>
    /\ user_speed_limit = 110
    /\ max_time_penalty_pct = 15
    /\ minimize_target = MinimizeEnergy
    /\ lam = Int2R(2)
    /\ battery_start_pct = 100
    /\ battery_end_pct = 20
    /\ sim = [v \in {110} |-> NotSimulated]
    /\ pc = "off"
    /\ candidates = <<>>
    /\ i = 1
    /\ results = <<>>
    /\ warnings = <<>>
    /\ message = ""
    /\ fastest_total_min = <<>>
    /\ feasible = <<>>
    /\ best = <<>>
    /\ fastest = <<>>
    /\ metrics = <<>>

InitFn ==
    /\ RunIdle
    /\ fn_pc = "args"
    /\ fn_in \in FnInputs
    /\ charge_out = <<>>
    /\ record_out = <<>>
    /\ fn_out = <<>>

\* lines 1136-1137: energy in kWh, then calculate_charging_stops
PlanCharging ==
    /\ fn_pc = "args"
    /\ charge_out' =
          <<calculate_charging_stops(fn_in.battery_kwh,
                                     RDiv(fn_in.energy_Wh, Int2R(1000)),
                                     fn_in.start_pct, fn_in.end_pct)>>
    /\ fn_pc' = "planned"
    /\ UNCHANGED <<fn_in, record_out, fn_out>>
    /\ UNCHANGED <<inputVars, runVars>>

\* lines 1136-1151: the record of a candidate simulated at 110 km/h
BuildResult ==
    /\ fn_pc = "args"
    /\ record_out' =
          <<CandidateResult(110, fn_in.energy_Wh, fn_in.T_h,
                            fn_in.battery_kwh, fn_in.start_pct,
                            fn_in.end_pct)>>
    /\ fn_pc' = "recorded"
    /\ UNCHANGED <<fn_in, charge_out, fn_out>>
    /\ UNCHANGED <<inputVars, runVars>>

NextFn ==
    \/ PlanCharging
    \/ BuildResult

SpecFn == InitFn /\ [][NextFn]_vars

(***************************************************************************)
(* Properties of the charging planner and of the result record (SpecFn)    *)
(***************************************************************************)
\* 100 * bd * available, for capacity bn/bd:
\* capacity * start/100 - max(0.1 * capacity, capacity * end/100)
Available100(bn, start_pct, end_pct) ==
    LET reserve == IF 10 * bn < bn * end_pct THEN bn * end_pct ELSE 10 * bn
    IN  bn * start_pct - reserve

\* 1000 * ed * bd * (energyNeeded - available) for a need of en/ed Wh
Remaining(inp) ==
    inp.energy_Wh.n * inp.battery_kwh.d
    - 10 * Available100(inp.battery_kwh.n, inp.start_pct, inp.end_pct)
         * inp.energy_Wh.d

\* 1000 * ed * bd * (0.9 * capacity)
Usable(inp) == 900 * inp.energy_Wh.d * inp.battery_kwh.n

FnArgs(b, e, s, t) ==
    /\ fn_in.battery_kwh = Int2R(b)
    /\ fn_in.energy_Wh = Int2R(1000 * e)
    /\ fn_in.start_pct = s
    /\ fn_in.end_pct = t

C10_InfeasibleSentinel ==
    (fn_pc = "planned" /\ fn_in.battery_kwh.n <= 0) =>
        /\ ~charge_out[1].raised
        /\ charge_out[1].num_stops = 999

\* C10 witness: the planner has run on a zero capacity with a positive need
C10_Witness ==
    /\ fn_pc = "planned"
    /\ fn_in.battery_kwh.n = 0
    /\ fn_in.energy_Wh.n > 0
    /\ charge_out[1].num_stops = 999

\* C8: in every result record charging time = stops * 20 min and total time
\* (min) = driving time (h) * 60 + charging time; the sentinel stop count is
\* multiplied like any other.
C8_RecordTimes ==
    fn_pc = "recorded" =>
        LET r == record_out[1]
            T == fn_in.T_h
        IN  /\ r.charging_time_min = r.charge_info.num_stops * 20
            /\ r.total_time_min.n * T.d =
                  (60 * T.n + r.charging_time_min * T.d) * r.total_time_min.d
            /\ fn_in.battery_kwh.n <= 0 => r.charging_time_min = 19980

\* C8 witness: a record built with the sentinel stop count and a driving
\* time of 50 minutes
C8_Witness ==
    /\ fn_pc = "recorded"
    /\ record_out[1].charge_info.num_stops = 999
    /\ fn_in.T_h = Rat(5, 6)
    /\ record_out[1].total_time_min = Int2R(20030)

(***************************************************************************)
(* Properties of the speed optimizer (Spec)                                *)
(***************************************************************************)
Elems(seq) == {seq[k] : k \in 1..Len(seq)}

\* the candidate loop has run to its end
LoopOver == pc = "done" \/ (pc = "stopped" /\ message = "No valid result found")

\* the candidate filter has run
Filtered == pc = "loop" \/ LoopOver

\* C1: under "Minimize energy under time constraint" the selected candidate
\* is feasible, its energy is the minimum over the feasible set, and among
\* the feasible candidates of that energy its total time is the least.
C1_MinEnergyThenTime ==
    (pc = "done" /\ minimize_target = MinimizeEnergy) =>
        LET b == best[1]
        IN  /\ b \in Elems(feasible)
            /\ \A r \in Elems(feasible) :
                  /\ RLeq(b.energy_Wh, r.energy_Wh)
                  /\ r.energy_Wh = b.energy_Wh =>
                        RLeq(b.total_time_min, r.total_time_min)

\* C1 witness: two feasible candidates tie on the minimum energy and the
\* later of them in the list is the faster one
C1_Witness ==
    /\ pc = "done"
    /\ minimize_target = MinimizeEnergy
    /\ \E j, k \in 1..Len(feasible) :
          /\ j < k
          /\ feasible[j].energy_Wh = feasible[k].energy_Wh
          /\ feasible[k] = best[1]
          /\ RLt(feasible[k].total_time_min, feasible[j].total_time_min)

\* the least total time of the results
LeastTotal(rs) ==
    CHOOSE t \in {r.total_time_min : r \in Elems(rs)} :
        \A r \in Elems(rs) : RLeq(t, r.total_time_min)

\* total <= fastest * (1 + pct/100)
InWindow(total, fastest_min, pct) ==
    100 * total.n * fastest_min.d <= (100 + pct) * fastest_min.n * total.d

\* the results whose total time is in the window, in the order of the results
Window(rs, pct) ==
    LET ok(r) == InWindow(r.total_time_min, LeastTotal(rs), pct)
    IN  SelectSeq(rs, ok)

\* the results are the three candidates of the scenario: energies
\* 10, 12, 15 kWh and total times 60, 55, 50 min
Scenario ==
    /\ Len(results) = 3
    /\ results[1].energy_kwh = Int2R(10) /\ results[1].total_time_min = Int2R(60)
    /\ results[2].energy_kwh = Int2R(12) /\ results[2].total_time_min = Int2R(55)
    /\ results[3].energy_kwh = Int2R(15) /\ results[3].total_time_min = Int2R(50)
    /\ max_time_penalty_pct = 20
    /\ minimize_target = MinimizeEnergy

Normalized(x, xs) ==
    LET lo == CHOOSE a \in xs : \A y \in xs : RLeq(a, y)
        hi == CHOOSE a \in xs : \A y \in xs : RLeq(y, a)
    IN  IF lo = hi THEN Int2R(0) ELSE RDiv(RSub(x, lo), RSub(hi, lo))

\* normEnergy + lambda * normTime of r over the feasible set
WeightedScoreOf(r) ==
    RAdd(Normalized(r.energy_Wh, {f.energy_Wh : f \in Elems(feasible)}),
         RMul(lam, Normalized(r.total_time_min,
                              {f.total_time_min : f \in Elems(feasible)})))

\* C3: under the weighted score the selected candidate is feasible and
\* minimizes normEnergy + lambda * normTime over the feasible set, each axis
\* normalized as (x - min)/(max - min), 0 when min = max; with lambda = 0 it
\* is a minimum-energy feasible candidate, with one feasible candidate it is
\* that candidate.
C3_WeightedScore ==
    (pc = "done" /\ minimize_target = WeightedScore) =>
        LET b == best[1]
        IN  /\ b \in Elems(feasible)
            /\ \A r \in Elems(feasible) :
                  RLeq(WeightedScoreOf(b), WeightedScoreOf(r))
            /\ lam = Int2R(0) =>
                  \A r \in Elems(feasible) : RLeq(b.energy_Wh, r.energy_Wh)
            /\ Len(feasible) = 1 => b = feasible[1]

\* C3 witness: with lambda = 2 the time weight selects a candidate that
\* does not have the least energy of the feasible set
C3_Witness ==
    /\ pc = "done"
    /\ minimize_target = WeightedScore
    /\ lam = Int2R(2)
    /\ \E r \in Elems(feasible) : RLt(r.energy_Wh, best[1].energy_Wh)

\* the candidates among the first k whose simulation succeeds, in order
Succeeded(k) ==
    LET ok(v) == sim[v].ok
    IN  SelectSeq(SubSeq(candidates, 1, k), ok)

\* the candidates among the first k whose simulation raises, in order
Failed(k) ==
    LET ko(v) == ~sim[v].ok
    IN  SelectSeq(SubSeq(candidates, 1, k), ko)

\* C4: a candidate whose simulation raises is alone absent from the result
\* set and the loop goes on: every candidate that simulates successfully
\* has exactly one record, in candidate order, with the values it has when
\* no candidate fails.
C4_FailureSkipsOne ==
    /\ Filtered =>
          /\ Len(results) = Len(Succeeded(i - 1))
          /\ \A k \in 1..Len(results) :
                LET v == Succeeded(i - 1)[k]
                IN  results[k] =
                       CandidateResult(v, sim[v].E_Wh, sim[v].T_h,
                                       veh.battery_kwh, battery_start_pct,
                                       battery_end_pct)
          /\ warnings = Failed(i - 1)
    /\ LoopOver => i = Len(candidates) + 1

\* C4 witness: the second of three candidates failed, the first and the
\* third have their records
C4_Witness ==
    /\ pc = "done"
    /\ Len(candidates) = 3
    /\ warnings = <<candidates[2]>>
    /\ Len(results) = 2
    /\ results[1].speed = candidates[1]
    /\ results[2].speed = candidates[3]

\* C5: when no candidate produces a result the optimization ends in the
\* failure state: no fastest candidate, no feasible set, no best candidate
\* and no result metrics are computed.
C5_NoResultFails ==
    /\ (LoopOver /\ results = <<>>) =>
          /\ pc = "stopped"
          /\ message = "No valid result found"
    /\ results = <<>> =>
          /\ fastest_total_min = <<>>
          /\ fastest = <<>>
          /\ feasible = <<>>
          /\ best = <<>>
          /\ metrics = <<>>

\* C5 witness: two candidates were simulated, both failed, the run stopped
C5_Witness ==
    /\ pc = "stopped"
    /\ message = "No valid result found"
    /\ Len(warnings) = 2
    /\ results = <<>>

\* C6: the aggregation (fastest time, feasibility filter, selection) starts
\* only after every candidate has produced a result or failed.
C6_AggregateAfterAll ==
    (\/ pc = "done"
     \/ fastest_total_min # <<>>
     \/ feasible # <<>>
     \/ best # <<>>
     \/ fastest # <<>>) =>
        /\ i = Len(candidates) + 1
        /\ Len(results) + Len(warnings) = Len(candidates)
        /\ Elems(candidates) =
              {r.speed : r \in Elems(results)} \cup Elems(warnings)

\* C6 witness: a selection made from the results of three candidates, one
\* of which failed
C6_Witness ==
    /\ pc = "done"
    /\ best # <<>>
    /\ Len(candidates) = 3
    /\ Len(warnings) = 1

\* C7: the candidates simulated are exactly the user's candidate speeds
\* that are <= the speed ceiling, and the ceiling alone if none qualifies;
\* the list is never empty and no candidate exceeds the ceiling.
C7_CandidateFilter ==
    /\ Filtered =>
          LET qualifying ==
                 {v \in Elems(candidate_speeds) : v <= user_speed_limit}
          IN  /\ qualifying # {} =>
                    /\ Elems(candidates) = qualifying
                    /\ Len(candidates) = Cardinality(qualifying)
                    /\ \A j, k \in 1..Len(candidates) :
                          j < k => candidates[j] < candidates[k]
              /\ qualifying = {} => candidates = <<user_speed_limit>>
              /\ candidates # <<>>
              /\ \A v \in Elems(candidates) : v <= user_speed_limit
    /\ LoopOver =>
          Elems(candidates) =
             {r.speed : r \in Elems(results)} \cup Elems(warnings)

\* C7 witness: the user typed speeds, none is within the ceiling, and the
\* ceiling alone was simulated
C7_Witness ==
    /\ pc = "done"
    /\ candidate_speeds # <<>>
    /\ candidates = <<user_speed_limit>>
    /\ user_speed_limit \notin Elems(candidate_speeds)
    /\ Len(results) = 1

(***************************************************************************)
(* The other pure functions of the program, each applied to drawn          *)
(* arguments: fn_in holds the arguments, fn_out the value returned         *)
(***************************************************************************)
\* the arguments are drawn from args, nothing is applied yet
FnStart(args) ==
    /\ RunIdle
    /\ fn_pc = "args"
    /\ fn_in \in args
    /\ charge_out = <<>>
    /\ record_out = <<>>
    /\ fn_out = <<>>

\* the function named label returns value
FnReturn(label, value) ==
    /\ fn_pc = "args"
    /\ fn_out' = <<value>>
    /\ fn_pc' = label
    /\ UNCHANGED <<fn_in, charge_out, record_out>>
    /\ UNCHANGED <<inputVars, runVars>>

(***************************************************************************)
(* Environmental physics: rolling_resistance_rain_factor and               *)
(* battery_capacity_factor                                                 *)
(***************************************************************************)
rolling_resistance_rain_factor_open(precip_mm_h) ==
    LET p == RMax(Int2R(0), precip_mm_h)
    IN  IF RLeq(p, Int2R(0)) THEN Int2R(1)
        ELSE IF RLt(p, Int2R(1)) THEN Rat(105, 100)
        ELSE IF RLt(p, Int2R(4)) THEN Rat(112, 100)
        ELSE Rat(120, 100)
rolling_resistance_rain_factor(precip_mm_h) ==
    LET p == RMax(Int2R(0), precip_mm_h)
    IN  IF RLeq(p, Int2R(0)) THEN Int2R(1)
        ELSE IF RLeq(p, Int2R(1)) THEN Rat(105, 100)
        ELSE IF RLeq(p, Int2R(4)) THEN Rat(112, 100)
        ELSE Rat(120, 100)

RMin(a, b) == IF RLt(b, a) THEN b ELSE a

battery_capacity_factor_unclamped(temp_c) ==
    LET cold_drop == RMul(Rat(3, 1000), RMax(Int2R(0), RSub(Int2R(20), temp_c)))
        heat_drop == RMul(Rat(1, 1000), RMax(Int2R(0), RSub(temp_c, Int2R(30))))
    IN  RMin(Int2R(1), RSub(RSub(Int2R(1), cold_drop), heat_drop))
battery_capacity_factor(temp_c) ==
    LET cold_drop == RMul(Rat(3, 1000), RMax(Int2R(0), RSub(Int2R(20), temp_c)))
        heat_drop == RMul(Rat(1, 1000), RMax(Int2R(0), RSub(temp_c, Int2R(30))))
        f == RSub(RSub(Int2R(1), cold_drop), heat_drop)
    IN  RMax(Rat(75, 100), RMin(Int2R(1), f))

\* precipitation rates in half mm/h, from -1 mm/h up
MaxPrecipHalves == 10
PrecipRates == {Rat(k, 2) : k \in (0 - 2)..MaxPrecipHalves}

\* ambient temperatures in steps of 10 degC around 0, the ends of the
\* comfort band and the temperatures where the clamp at 0.75 sets in
MaxTempSteps == 8
Temperatures ==
    {Int2R(10 * k) : k \in (0 - MaxTempSteps)..MaxTempSteps}
    \cup {Int2R(0 - 64), Int2R(0 - 63), Rat(39, 2), Int2R(25), Rat(61, 2),
          Int2R(279), Int2R(280), Int2R(281), Int2R(300)}

\* two rates, to compare the factors of
InitRain == FnStart([p1 : PrecipRates, p2 : PrecipRates])
RainFactor ==
    FnReturn("rain", [f1 |-> rolling_resistance_rain_factor(fn_in.p1),
                      f2 |-> rolling_resistance_rain_factor(fn_in.p2)])
NextRain == RainFactor
SpecRain == InitRain /\ [][NextRain]_vars

\* two temperatures, to compare the factors of
InitBatt == FnStart([t1 : Temperatures, t2 : Temperatures])
CapacityFactor ==
    FnReturn("capacity", [f1 |-> battery_capacity_factor(fn_in.t1),
                          f2 |-> battery_capacity_factor(fn_in.t2)])
NextBatt == CapacityFactor
SpecBatt == InitBatt /\ [][NextBatt]_vars

\* C19: the rain factor is 1.00 for p <= 0, 1.05 for 0 < p <= 1, 1.12 for
\* 1 < p <= 4, 1.20 for p > 4, and p1 < p2 implies factor(p1) <= factor(p2).
C19_RainFactorSteps ==
    fn_pc = "rain" =>
        LET p == fn_in.p1
            f == fn_out[1].f1
        IN  /\ p.n <= 0 => f = Int2R(1)
            /\ (0 < p.n /\ p.n <= p.d) => (f.n = 21 /\ f.d = 20)
            /\ (p.d < p.n /\ p.n <= 4 * p.d) => (f.n = 28 /\ f.d = 25)
            /\ 4 * p.d < p.n => (f.n = 6 /\ f.d = 5)
            /\ fn_in.p1.n * fn_in.p2.d < fn_in.p2.n * fn_in.p1.d =>
                  fn_out[1].f1.n * fn_out[1].f2.d
                     <= fn_out[1].f2.n * fn_out[1].f1.d

\* C19 witness: the factors of 1 mm/h and of 4.5 mm/h, 1.05 and 1.20
C19_Witness ==
    /\ fn_pc = "rain"
    /\ fn_in.p1 = Int2R(1)
    /\ fn_in.p2 = Rat(9, 2)
    /\ fn_out[1] = [f1 |-> Rat(21, 20), f2 |-> Rat(6, 5)]

\* C20: the battery capacity factor lies in [0.75, 1.00], is 1.00 for
\* 20 <= T <= 30, does not increase as T decreases below 20 and does not
\* increase as T increases above 30.
C20_CapacityFactorBand ==
    fn_pc = "capacity" =>
        LET t1 == fn_in.t1
            t2 == fn_in.t2
            f1 == fn_out[1].f1
            f2 == fn_out[1].f2
            lower == t1.n * t2.d < t2.n * t1.d
        IN  /\ 3 * f1.d <= 4 * f1.n
            /\ f1.n <= f1.d
            /\ (20 * t1.d <= t1.n /\ t1.n <= 30 * t1.d) => f1 = Int2R(1)
            /\ (lower /\ t2.n <= 20 * t2.d) => f1.n * f2.d <= f2.n * f1.d
            /\ (lower /\ 30 * t1.d <= t1.n) => f2.n * f1.d <= f1.n * f2.d

\* C20 witness: the factors of -80 degC, clamped to 0.75, and of 0 degC, 0.94
C20_Witness ==
    /\ fn_pc = "capacity"
    /\ fn_in.t1 = Int2R(0 - 80)
    /\ fn_in.t2 = Int2R(0)
    /\ fn_out[1] = [f1 |-> Rat(3, 4), f2 |-> Rat(47, 50)]

(***************************************************************************)
(* Text: a Python str is the sequence of its characters                    *)
(***************************************************************************)
UpperCase == <<"A", "B", "C", "D", "E", "F", "G", "H", "I", "J", "K", "L", "M", "N", "O", "P", "Q", "R", "S", "T", "U", "V", "W", "X", "Y", "Z">>
LowerCase == <<"a", "b", "c", "d", "e", "f", "g", "h", "i", "j", "k", "l", "m", "n", "o", "p", "q", "r", "s", "t", "u", "v", "w", "x", "y", "z">>

\* str.lower
Lower(s) ==
    [k \in 1..Len(s) |->
        IF \E c \in 1..Len(UpperCase) : UpperCase[c] = s[k]
        THEN LowerCase[CHOOSE c \in 1..Len(UpperCase) : UpperCase[c] = s[k]]
        ELSE s[k]]

\* key in s
Contains(key, s) ==
    \E k \in 1..(Len(s) - Len(key) + 1) : SubSeq(s, k, k + Len(key) - 1) = key

Min2(a, b) == IF b < a THEN b ELSE a
Max2(a, b) == IF b > a THEN b ELSE a

(***************************************************************************)
(* get_speed_limit_by_road_type                                            *)
(***************************************************************************)
\* the dict in insertion order
speed_mapping_nominal(user_max_speed) == <<
    [key |-> <<"m", "o", "t", "o", "r", "w", "a", "y">>, speed |-> 130],
    [key |-> <<"t", "r", "u", "n", "k">>, speed |-> 110],
    [key |-> <<"p", "r", "i", "m", "a", "r", "y">>, speed |-> 90],
    [key |-> <<"s", "e", "c", "o", "n", "d", "a", "r", "y">>, speed |-> 90],
    [key |-> <<"t", "e", "r", "t", "i", "a", "r", "y">>, speed |-> 90],
    [key |-> <<"u", "n", "c", "l", "a", "s", "s", "i", "f", "i", "e", "d">>, speed |-> 50],
    [key |-> <<"r", "e", "s", "i", "d", "e", "n", "t", "i", "a", "l">>, speed |-> 50],
    [key |-> <<"s", "e", "r", "v", "i", "c", "e">>, speed |-> 30] >>
speed_mapping(user_max_speed) == <<
    [key |-> <<"m", "o", "t", "o", "r", "w", "a", "y">>, speed |-> Min2(130, user_max_speed)],
    [key |-> <<"t", "r", "u", "n", "k">>, speed |-> Min2(110, user_max_speed)],
    [key |-> <<"p", "r", "i", "m", "a", "r", "y">>, speed |-> Min2(90, user_max_speed)],
    [key |-> <<"s", "e", "c", "o", "n", "d", "a", "r", "y">>, speed |-> Min2(90, user_max_speed)],
    [key |-> <<"t", "e", "r", "t", "i", "a", "r", "y">>, speed |-> Min2(90, user_max_speed)],
    [key |-> <<"u", "n", "c", "l", "a", "s", "s", "i", "f", "i", "e", "d">>, speed |-> 50],
    [key |-> <<"r", "e", "s", "i", "d", "e", "n", "t", "i", "a", "l">>, speed |-> 50],
    [key |-> <<"s", "e", "r", "v", "i", "c", "e">>, speed |-> 30] >>

RECURSIVE FirstMatch_caseSensitive(_, _)
FirstMatch_caseSensitive(items, road_type) ==
    IF Len(items) = 0 THEN 50
    ELSE IF Len(road_type) > 0 /\ Contains(Head(items).key, road_type)
         THEN Head(items).speed
         ELSE FirstMatch_caseSensitive(Tail(items), road_type)

\* the loop over speed_mapping.items() and the default after it
RECURSIVE FirstMatch(_, _)
FirstMatch(items, road_type) ==
    IF Len(items) = 0 THEN 50
    ELSE IF Len(road_type) > 0 /\ Contains(Head(items).key, Lower(road_type))
         THEN Head(items).speed
         ELSE FirstMatch(Tail(items), road_type)

get_speed_limit_by_road_type(road_type, user_max_speed) ==
    FirstMatch(speed_mapping(user_max_speed), road_type)

\* road and way type labels: the table's keywords in several spellings,
\* labels holding two keywords, labels holding none, the empty label
RoadLabels == {
    <<"M", "o", "t", "o", "r", "w", "a", "y">>,
    <<"m", "o", "t", "o", "r", "w", "a", "y", "_", "l", "i", "n", "k">>,
    <<"M", "O", "T", "O", "R", "W", "A", "Y">>,
    <<"t", "r", "u", "n", "k">>,
    <<"T", "r", "u", "n", "k", "_", "L", "i", "n", "k">>,
    <<"p", "r", "i", "m", "a", "r", "y">>,
    <<"s", "e", "c", "o", "n", "d", "a", "r", "y">>,
    <<"t", "e", "r", "t", "i", "a", "r", "y">>,
    <<"u", "n", "c", "l", "a", "s", "s", "i", "f", "i", "e", "d">>,
    <<"r", "e", "s", "i", "d", "e", "n", "t", "i", "a", "l">>,
    <<"s", "e", "r", "v", "i", "c", "e">>,
    <<"u", "n", "k", "n", "o", "w", "n", "_", "t", "y", "p", "e">>,
    <<>>,
    <<"3">>,
    <<"p", "r", "i", "m", "a", "r", "y", ";", "m", "o", "t", "o", "r", "w", "a", "y">>,
    <<"s", "e", "r", "v", "i", "c", "e", "_", "r", "o", "a", "d", ";", "t", "r", "u", "n", "k">>,
    <<"l", "i", "v", "i", "n", "g", "_", "s", "t", "r", "e", "e", "t">>,
    <<"t", "r", "a", "c", "k">> }
UserMaxSpeeds == {20, 50, 80, 90, 100, 110, 120, 130, 150}

InitLimit == FnStart([road_type : RoadLabels, user_max_speed : UserMaxSpeeds])
SpeedLimitByRoadType ==
    FnReturn("limit",
             get_speed_limit_by_road_type(fn_in.road_type, fn_in.user_max_speed))
NextLimit == SpeedLimitByRoadType
SpecLimit == InitLimit /\ [][NextLimit]_vars

\* the keywords in table order, and the limit each one stands for
C14_Keywords == <<<<"m", "o", "t", "o", "r", "w", "a", "y">>, <<"t", "r", "u", "n", "k">>, <<"p", "r", "i", "m", "a", "r", "y">>, <<"s", "e", "c", "o", "n", "d", "a", "r", "y">>, <<"t", "e", "r", "t", "i", "a", "r", "y">>, <<"u", "n", "c", "l", "a", "s", "s", "i", "f", "i", "e", "d">>, <<"r", "e", "s", "i", "d", "e", "n", "t", "i", "a", "l">>, <<"s", "e", "r", "v", "i", "c", "e">>>>
C14_Value(k, ceiling) ==
    CASE k = 1 -> IF ceiling < 130 THEN ceiling ELSE 130
      [] k = 2 -> IF ceiling < 110 THEN ceiling ELSE 110
      [] k \in 3..5 -> IF ceiling < 90 THEN ceiling ELSE 90
      [] k \in 6..7 -> 50
      [] k = 8 -> 30
C14_Matches(label) ==
    {k \in 1..8 : Contains(C14_Keywords[k], Lower(label))}

\* C14: the limit is the value of the first keyword in table order that is
\* a substring of the lower-cased label, and 50 when no keyword matches or
\* the label is empty.
C14_FirstKeywordLimit ==
    fn_pc = "limit" =>
        LET m == C14_Matches(fn_in.road_type)
        IN  IF m = {}
            THEN fn_out[1] = 50
            ELSE \E k \in m :
                    /\ \A j \in m : k <= j
                    /\ fn_out[1] = C14_Value(k, fn_in.user_max_speed)

\* C14 witness: "Motorway" under a ceiling of 110 gives 110
C14_Witness ==
    /\ fn_pc = "limit"
    /\ fn_in = [road_type |-> <<"M", "o", "t", "o", "r", "w", "a", "y">>, user_max_speed |-> 110]
    /\ fn_out = <<110>>

(***************************************************************************)
(* seg_energy_and_time: energy (Wh) and time (h) of one leg at constant    *)
(* speed.  A square root is exact when it is rational and is truncated to  *)
(* 1/100 otherwise.                                                        *)
(***************************************************************************)
g == Rat(981, 100)

\* the integer part of sqrt(x), known to lie in lo..hi
ISqrt(x, lo, hi) == CHOOSE r \in lo..hi : r * r <= x /\ (r + 1) * (r + 1) > x

\* slope.d * sqrt(1 + slope^2)
Hyp(slope) ==
    Rat(ISqrt((slope.n * slope.n + slope.d * slope.d) * 10000,
              Max2(Abs(slope.n), slope.d) * 100,
              (Abs(slope.n) + slope.d) * 100), 100)
\* math.cos(math.atan(slope)), math.sin(math.atan(slope))
CosAtan(slope) == RDiv(Int2R(slope.d), Hyp(slope))
SinAtan_cosine(slope) == RDiv(Int2R(slope.d), Hyp(slope))
SinAtan(slope) == RDiv(Int2R(slope.n), Hyp(slope))

\* lines 525-542, the powers of a leg in W; p holds the keyword arguments
SegPowers_fullRecovery(slope0, speed_kmh, p) ==
    LET slope == RMax(Rat(0 - 1, 2), RMin(Rat(1, 2), slope0))
        v == RMul(RMax(speed_kmh, Rat(1, 1000)), Rat(1000, 3600))
        F_aero == RMul(RMul(RMul(RMul(Rat(1, 2), p.rho_air), p.cda), v), v)
        F_roll == RMul(RMul(RMul(p.crr, p.mass_kg), g), CosAtan(slope))
        F_grade == RMul(RMul(p.mass_kg, g), SinAtan(slope))
        P_wheels == RMul(RAdd(RAdd(F_aero, F_roll), F_grade), v)
        P_elec == IF RLeq(Int2R(0), P_wheels)
                  THEN RDiv(P_wheels, RMax(p.eta_drive, Rat(1, 1000000)))
                  ELSE P_wheels
        P_aux == RMul(p.aux_power_kw, Int2R(1000))
    IN  [v |-> v, P_wheels |-> P_wheels, P_elec |-> P_elec, P_aux |-> P_aux,
         P_total |-> RAdd(P_elec, P_aux)]
SegPowers(slope0, speed_kmh, p) ==
    LET slope == RMax(Rat(0 - 1, 2), RMin(Rat(1, 2), slope0))
        v == RMul(RMax(speed_kmh, Rat(1, 1000)), Rat(1000, 3600))
        F_aero == RMul(RMul(RMul(RMul(Rat(1, 2), p.rho_air), p.cda), v), v)
        F_roll == RMul(RMul(RMul(p.crr, p.mass_kg), g), CosAtan(slope))
        F_grade == RMul(RMul(p.mass_kg, g), SinAtan(slope))
        P_wheels == RMul(RAdd(RAdd(F_aero, F_roll), F_grade), v)
        P_elec == IF RLeq(Int2R(0), P_wheels)
                  THEN RDiv(P_wheels, RMax(p.eta_drive, Rat(1, 1000000)))
                  ELSE RMul(P_wheels, p.regen_eff)
        P_aux == RMul(p.aux_power_kw, Int2R(1000))
    IN  [v |-> v, P_wheels |-> P_wheels, P_elec |-> P_elec, P_aux |-> P_aux,
         P_total |-> RAdd(P_elec, P_aux)]

\* lines 525-549, the body after the guard
SegPhysics(distance_m, slope0, speed_kmh, p) ==
    LET v == RMul(RMax(speed_kmh, Rat(1, 1000)), Rat(1000, 3600))  \* line 525
        P_total == SegPowers(slope0, speed_kmh, p).P_total
        t == RDiv(distance_m, RMax(v, Rat(1, 1000000)))
        E_Wh == RMul(P_total, RDiv(t, Int2R(3600)))
    IN  <<RMul(E_Wh, p.batt_E_mult), RDiv(t, Int2R(3600))>>

seg_energy_and_time_speedOnly(distance_m, slope, speed_kmh, p) ==
    IF RLeq(speed_kmh, Int2R(0))
    THEN <<Int2R(0), Int2R(0)>>
    ELSE SegPhysics(distance_m, slope, speed_kmh, p)
seg_energy_and_time(distance_m, slope, speed_kmh, p) ==
    IF RLeq(distance_m, Int2R(0)) \/ RLeq(speed_kmh, Int2R(0))
    THEN <<Int2R(0), Int2R(0)>>
    ELSE SegPhysics(distance_m, slope, speed_kmh, p)

\* keyword arguments of a simulation: a heavy car with 2 kW of auxiliaries,
\* a light one with a cold battery, and the two with the ends of the
\* regeneration slider (0 % and 90 %)
SegVehicles == {
    [mass_kg |-> Int2R(2500), cda |-> Rat(4, 5), crr |-> Rat(1, 50),
     rho_air |-> Rat(5, 4), eta_drive |-> Rat(4, 5), regen_eff |-> Rat(3, 5),
     aux_power_kw |-> Int2R(2), batt_E_mult |-> Int2R(1)],
    [mass_kg |-> Int2R(2000), cda |-> Rat(1, 2), crr |-> Rat(1, 100),
     rho_air |-> Rat(6, 5), eta_drive |-> Rat(9, 10), regen_eff |-> Rat(4, 5),
     aux_power_kw |-> Rat(1, 2), batt_E_mult |-> Rat(11, 10)],
    [mass_kg |-> Int2R(2500), cda |-> Rat(4, 5), crr |-> Rat(1, 50),
     rho_air |-> Rat(5, 4), eta_drive |-> Rat(4, 5), regen_eff |-> Int2R(0),
     aux_power_kw |-> Int2R(2), batt_E_mult |-> Int2R(1)],
    [mass_kg |-> Int2R(2000), cda |-> Rat(1, 2), crr |-> Rat(1, 100),
     rho_air |-> Rat(6, 5), eta_drive |-> Rat(9, 10), regen_eff |-> Rat(9, 10),
     aux_power_kw |-> Int2R(0), batt_E_mult |-> Int2R(1)] }
\* grades: flat, climbs and descents, and two beyond the clamp at 0.5
Slopes == {Int2R(0), Rat(5, 12), Rat(0 - 5, 12), Rat(9, 40), Rat(0 - 9, 40),
           Rat(3, 4), Int2R(0 - 1)}
SegDistances == {Int2R(0 - 100), Int2R(0), Int2R(900), Int2R(1800)}
SegSpeeds == {Int2R(0 - 10), Int2R(0), Int2R(36), Int2R(90)}

InitSeg ==
    FnStart([distance_m : SegDistances, slope : Slopes, speed_kmh : SegSpeeds,
             veh : SegVehicles])
SegEnergyAndTime ==
    FnReturn("seg", seg_energy_and_time(fn_in.distance_m, fn_in.slope,
                                        fn_in.speed_kmh, fn_in.veh))
\* the powers a call holds at line 542, once past the guard of line 522
SegPowerBalance ==
    /\ RLt(Int2R(0), fn_in.distance_m)
    /\ RLt(Int2R(0), fn_in.speed_kmh)
    /\ FnReturn("powers", SegPowers(fn_in.slope, fn_in.speed_kmh, fn_in.veh))
NextSeg == SegEnergyAndTime \/ SegPowerBalance
SpecSeg == InitSeg /\ [][NextSeg]_vars

\* C13: a leg of distance <= 0 or speed <= 0 returns exactly (0, 0), for
\* every grade and every vehicle, auxiliary power included.
C13_DegenerateLegIsZero ==
    (fn_pc = "seg" /\ (fn_in.distance_m.n <= 0 \/ fn_in.speed_kmh.n <= 0)) =>
        /\ fn_out[1][1].n = 0
        /\ fn_out[1][2].n = 0

\* C13 witness: 1800 m at speed 0 on a climb with 2 kW of auxiliaries
C13_Witness ==
    /\ fn_pc = "seg"
    /\ fn_in.distance_m = Int2R(1800)
    /\ fn_in.speed_kmh = Int2R(0)
    /\ fn_in.slope = Rat(5, 12)
    /\ fn_in.veh.aux_power_kw = Int2R(2)
    /\ fn_out[1] = <<Int2R(0), Int2R(0)>>

\* a leg of positive distance and speed takes time, so the zero above is
\* the guard's doing
SegTakesTime ==
    /\ fn_pc = "seg"
    /\ fn_in.distance_m = Int2R(1800)
    /\ fn_in.speed_kmh = Int2R(90)
    /\ fn_out[1][2] = Rat(1, 50)

(***************************************************************************)
(* route_energy_time: the totals of a route.  The points lie on one great  *)
(* circle, a point is its arc length pos (m) on it, so that the haversine  *)
(* distance of two points is the difference of their arc lengths; a point  *)
(* with fewer than two coordinates has has_lonlat = FALSE.  speed_kmh is   *)
(* [is_list, items]: a list, or the scalar items[1].                       *)
(***************************************************************************)
Scalar(v) == [is_list |-> FALSE, items |-> <<v>>]
SpeedList(items) == [is_list |-> TRUE, items |-> items]

RAbs(a) == IF a.n < 0 THEN Rat(0 - a.n, a.d) ELSE a

\* lines 571-576: R * c
GreatCircle(p1, p2) == RAbs(RSub(p2.pos, p1.pos))

SpeedArg_default(speed_kmh, coords) ==
    IF speed_kmh.is_list /\ Len(speed_kmh.items) # Len(coords) - 1
    THEN Scalar(Int2R(50))
    ELSE speed_kmh
\* lines 555-559: a list that does not have one speed per leg becomes a scalar
SpeedArg(speed_kmh, coords) ==
    IF speed_kmh.is_list /\ Len(speed_kmh.items) # Len(coords) - 1
    THEN Scalar(IF Len(speed_kmh.items) > 0
                THEN speed_kmh.items[1]
                ELSE Int2R(50))
    ELSE speed_kmh

RouteTotals(E, T, D) == [total_E |-> E, total_T |-> T, total_D |-> D]

\* lines 584-590: the leg from point leg to point leg + 1,
\* of length d, is simulated
LegSlope(elevations, leg, d) ==
    LET h1 == elevations[leg]
        h2 == elevations[leg + 1]
    IN  RDiv(RSub(h2, h1), RMax(d, Rat(1, 1000000)))
LegAdded(coords, elevations, speed_kmh, p, leg, d, tot) ==
    LET slope == LegSlope(elevations, leg, d)
        seg_speed == IF speed_kmh.is_list
                     THEN speed_kmh.items[leg]
                     ELSE speed_kmh.items[1]
        seg == seg_energy_and_time(d, slope, seg_speed, p)
    IN  RouteTotals(RAdd(tot.total_E, seg[1]), RAdd(tot.total_T, seg[2]),
                    RAdd(tot.total_D, d))

\* lines 562-570, 577-578: the leg is passed over by continue
LegSkipped(coords, leg) ==
    \/ ~coords[leg].has_lonlat
    \/ ~coords[leg + 1].has_lonlat
    \/ RLt(GreatCircle(coords[leg], coords[leg + 1]), Rat(1, 100))

RECURSIVE RouteLoop_break(_, _, _, _, _, _)
RouteLoop_break(coords, elevations, speed_kmh, p, leg, tot) ==
    IF leg > Len(coords) - 1 THEN tot
    ELSE IF LegSkipped(coords, leg) THEN tot
    ELSE RouteLoop_break(coords, elevations, speed_kmh, p, leg + 1,
             LegAdded(coords, elevations, speed_kmh, p, leg,
                      GreatCircle(coords[leg], coords[leg + 1]), tot))

\* lines 561-590: for i in range(1, len(coords)), from the given leg on
RECURSIVE RouteLoop(_, _, _, _, _, _)
RouteLoop(coords, elevations, speed_kmh, p, leg, tot) ==
    IF leg > Len(coords) - 1 THEN tot
    ELSE IF LegSkipped(coords, leg)
    THEN RouteLoop(coords, elevations, speed_kmh, p, leg + 1, tot)
    ELSE RouteLoop(coords, elevations, speed_kmh, p, leg + 1,
             LegAdded(coords, elevations, speed_kmh, p, leg,
                      GreatCircle(coords[leg], coords[leg + 1]), tot))

route_energy_time(coords, elevations, speed_kmh, p) ==
    LET tot == RouteLoop(coords, elevations, SpeedArg(speed_kmh, coords), p, 1,
                         RouteTotals(Int2R(0), Int2R(0), Int2R(0)))
    IN  <<tot.total_E, tot.total_T, RDiv(tot.total_D, Int2R(1000))>>

\* a route is drawn leg by leg: run is the arc length the leg advances by,
\* rise its climb, ok whether its end point has both coordinates
MaxLegs == 3
LegShapes == {
    [run |-> Int2R(900), rise |-> Int2R(0), ok |-> TRUE],
    [run |-> Int2R(1200), rise |-> Int2R(350), ok |-> TRUE],
    [run |-> Int2R(0 - 1200), rise |-> Int2R(0 - 350), ok |-> TRUE],
    [run |-> Int2R(0), rise |-> Int2R(0), ok |-> TRUE],
    [run |-> Rat(1, 200), rise |-> Int2R(5), ok |-> TRUE],
    [run |-> Int2R(900), rise |-> Int2R(0), ok |-> FALSE] }

SeqsUpTo(S, n) == UNION {[1..k -> S] : k \in 0..n}

RECURSIVE RouteAlong(_)
RouteAlong(shapes) ==
    IF Len(shapes) = 0
    THEN [coords |-> <<[pos |-> Int2R(0), has_lonlat |-> TRUE]>>,
          elevations |-> <<Int2R(2000)>>]
    ELSE LET r == RouteAlong(SubSeq(shapes, 1, Len(shapes) - 1))
             s == shapes[Len(shapes)]
             at == r.coords[Len(r.coords)].pos
             h == r.elevations[Len(r.elevations)]
         IN  [coords |-> Append(r.coords, [pos |-> RAdd(at, s.run),
                                           has_lonlat |-> s.ok]),
              elevations |-> Append(r.elevations, RAdd(h, s.rise))]

\* the routes of at most MaxLegs legs, and the route of no point
Routes ==
    {RouteAlong(shapes) : shapes \in SeqsUpTo(LegShapes, MaxLegs)}
    \cup {[coords |-> <<>>, elevations |-> <<>>]}
RouteSpeeds == {Int2R(36), Int2R(90)}
RouteVehicles == {
    [mass_kg |-> Int2R(2500), cda |-> Rat(1, 2), crr |-> Rat(1, 50),
     rho_air |-> Rat(6, 5), eta_drive |-> Rat(4, 5), regen_eff |-> Rat(3, 5),
     aux_power_kw |-> Int2R(2), batt_E_mult |-> Int2R(1)] }
\* a scalar, or a list of up to one speed more than the longest route has legs
SpeedArgs ==
    {Scalar(v) : v \in RouteSpeeds}
    \cup {SpeedList(items) : items \in SeqsUpTo(RouteSpeeds, MaxLegs + 1)}

InitRoute ==
    FnStart([route : Routes, speed_kmh : SpeedArgs, veh : RouteVehicles])
\* the grades a call passes to seg_energy_and_time at line 587, in leg order
RECURSIVE GradesPassed(_, _, _)
GradesPassed(coords, elevations, leg) ==
    IF leg > Len(coords) - 1 THEN <<>>
    ELSE IF LegSkipped(coords, leg) THEN GradesPassed(coords, elevations, leg + 1)
    ELSE <<LegSlope(elevations, leg,
                    GreatCircle(coords[leg], coords[leg + 1]))>>
         \o GradesPassed(coords, elevations, leg + 1)

\* fn_out holds the value returned and, after it, the grades passed
RouteEnergyTime ==
    /\ fn_pc = "args"
    /\ fn_out' = <<route_energy_time(fn_in.route.coords,
                                     fn_in.route.elevations,
                                     fn_in.speed_kmh, fn_in.veh),
                   GradesPassed(fn_in.route.coords, fn_in.route.elevations, 1)>>
    /\ fn_pc' = "route"
    /\ UNCHANGED <<fn_in, charge_out, record_out>>
    /\ UNCHANGED <<inputVars, runVars>>
NextRoute == RouteEnergyTime
SpecRoute == InitRoute /\ [][NextRoute]_vars

\* the legs of the route drawn, and the legs that are degenerate
Legs == 1..(Len(fn_in.route.coords) - 1)
Degenerate(leg) ==
    LET a == fn_in.route.coords[leg]
        b == fn_in.route.coords[leg + 1]
        by == RSub(b.pos, a.pos)
    IN  \/ ~a.has_lonlat
        \/ ~b.has_lonlat
        \/ (by.n < 0 /\ 100 * (0 - by.n) < by.d)
        \/ (by.n >= 0 /\ 100 * by.n < by.d)

\* the totals of the legs 1..k that are not degenerate, leg j at speeds[j]
RECURSIVE SumOfLegs(_, _)
SumOfLegs(speeds, k) ==
    IF k = 0 THEN <<Int2R(0), Int2R(0), Int2R(0)>>
    ELSE LET before == SumOfLegs(speeds, k - 1)
             d == RAbs(RSub(fn_in.route.coords[k + 1].pos,
                            fn_in.route.coords[k].pos))
             climb == RSub(fn_in.route.elevations[k + 1],
                           fn_in.route.elevations[k])
         IN  IF Degenerate(k) THEN before
             ELSE LET seg == seg_energy_and_time(d, RDiv(climb, d), speeds[k],
                                                 fn_in.veh)
                  IN  <<RAdd(before[1], seg[1]), RAdd(before[2], seg[2]),
                        RAdd(before[3], RDiv(d, Int2R(1000)))>>
LegCount == IF Len(fn_in.route.coords) = 0 THEN 0 ELSE Len(fn_in.route.coords) - 1
ScalarSimulation(v) == SumOfLegs([k \in 1..LegCount |-> v], LegCount)
Mismatched ==
    /\ fn_in.speed_kmh.is_list
    /\ Len(fn_in.speed_kmh.items) # Len(fn_in.route.coords) - 1

\* C11 as stated: a list whose length differs from the leg count has a first
\* element, and the totals are those of the scalar simulation at it.
C11_FirstElementUniform ==
    (fn_pc = "route" /\ Mismatched) =>
        /\ Len(fn_in.speed_kmh.items) > 0
        /\ fn_out[1] = ScalarSimulation(fn_in.speed_kmh.items[1])

\* C11 amended: a list whose length differs from the leg count is simulated
\* as the scalar speed of its first element, and as 50 km/h when it is
\* empty; the totals are those of the scalar simulation at that speed.
C11_MismatchedListUniform ==
    (fn_pc = "route" /\ Mismatched) =>
        fn_out[1] = ScalarSimulation(IF Len(fn_in.speed_kmh.items) > 0
                                     THEN fn_in.speed_kmh.items[1]
                                     ELSE Int2R(50))

\* C11 witness: two legs, a list of three speeds 90, 36, 36: both legs at 90
C11_Witness ==
    /\ fn_pc = "route"
    /\ Len(fn_in.route.coords) = 3
    /\ \A leg \in Legs : ~Degenerate(leg)
    /\ fn_in.speed_kmh = SpeedList(<<Int2R(90), Int2R(36), Int2R(36)>>)
    /\ fn_out[1][2] = Rat(1, 50)
    /\ fn_out[1][3] = Rat(9, 5)

\* C12: a degenerate leg adds nothing to energy, time and distance, and
\* every other leg is simulated with the speed and elevations of its index.
C12_DegenerateLegSkipped ==
    (fn_pc = "route" /\ ~Mismatched) =>
        fn_out[1] = SumOfLegs([k \in 1..LegCount |->
                                  IF fn_in.speed_kmh.is_list
                                  THEN fn_in.speed_kmh.items[k]
                                  ELSE fn_in.speed_kmh.items[1]], LegCount)

\* C12 witness: a climb at 90, a repeated point, a flat leg at 36: the
\* totals are those of the first and the third leg
C12_Witness ==
    /\ fn_pc = "route"
    /\ Len(fn_in.route.coords) = 4
    /\ ~Degenerate(1) /\ Degenerate(2) /\ ~Degenerate(3)
    /\ fn_in.route.elevations[2] # fn_in.route.elevations[1]
    /\ fn_in.speed_kmh = SpeedList(<<Int2R(90), Int2R(90), Int2R(36)>>)
    /\ fn_out[1][2] = Rat(23, 600)
    /\ fn_out[1][3] = Rat(21, 10)

(***************************************************************************)
(* create_segmented_speeds: one speed per leg from the road type of the    *)
(* segment the leg's midpoint falls in.  A label that is None or empty is  *)
(* the empty sequence; speeds are integers (km/h).                         *)
(***************************************************************************)
NoLabel == <<>>

ClampSpeed_noFloor(candidate_speed, speed_limit, min_speed_delta) ==
    Min2(candidate_speed, speed_limit)
\* lines 712-713 and 717-718: min_allowed_speed and final_speed
ClampSpeed(candidate_speed, speed_limit, min_speed_delta) ==
    LET min_allowed_speed == Max2(30, speed_limit - min_speed_delta)
    IN  Max2(min_allowed_speed, Min2(candidate_speed, speed_limit))

\* lines 656-661: start and end of every segment on the axis of the
\* segments' cumulated lengths
RECURSIVE SegmentBoundaries(_)
SegmentBoundaries(detailed_segments) ==
    IF Len(detailed_segments) = 0 THEN <<>>
    ELSE LET before == SegmentBoundaries(
                           SubSeq(detailed_segments, 1, Len(detailed_segments) - 1))
             seg == detailed_segments[Len(detailed_segments)]
             cumul_dist == IF Len(before) = 0 THEN 0 ELSE before[Len(before)].end
         IN  Append(before, [start |-> cumul_dist,
                             end |-> cumul_dist + seg.distance,
                             segment |-> seg])

\* lines 663-675: the haversine distance from the first point to each point
RECURSIVE CoordDistances(_)
CoordDistances(coords) ==
    IF Len(coords) <= 1 THEN <<Int2R(0)>>
    ELSE LET before == CoordDistances(SubSeq(coords, 1, Len(coords) - 1))
         IN  Append(before,
                    RAdd(before[Len(before)],
                         GreatCircle(coords[Len(coords) - 1], coords[Len(coords)])))

\* d * coord_ratio for every d
RECURSIVE Scaled(_, _)
Scaled(coord_distances, coord_ratio) ==
    IF Len(coord_distances) = 0 THEN <<>>
    ELSE <<RMul(Head(coord_distances), coord_ratio)>>
         \o Scaled(Tail(coord_distances), coord_ratio)

\* lines 654, 677-679: the same distances on the scale of the segments
ScaledCoordDistances(coords, segment_boundaries) ==
    LET sum == IF Len(segment_boundaries) = 0 THEN 0
               ELSE segment_boundaries[Len(segment_boundaries)].end
        total_route_distance == IF sum = 0 THEN 1 ELSE sum
        coord_distances == CoordDistances(coords)
        last == coord_distances[Len(coord_distances)]
    IN  IF RLt(Int2R(0), last)
        THEN Scaled(coord_distances, RDiv(Int2R(total_route_distance), last))
        ELSE coord_distances

\* segment k holds the distance: start <= mid_dist < end
Holds(segment_boundaries, k, mid_dist) ==
    /\ segment_boundaries[k].start * mid_dist.d <= mid_dist.n
    /\ mid_dist.n < segment_boundaries[k].end * mid_dist.d

\* lines 684-690: the index of the first segment that holds the midpoint of
\* the leg, 0 when there is none
SegmentFound(coord_distances, segment_boundaries, leg) ==
    LET mid_dist == RDiv(RAdd(coord_distances[leg], coord_distances[leg + 1]),
                         Int2R(2))
    IN  IF \E k \in 1..Len(segment_boundaries) :
               Holds(segment_boundaries, k, mid_dist)
        THEN CHOOSE k \in 1..Len(segment_boundaries) :
                 /\ Holds(segment_boundaries, k, mid_dist)
                 /\ \A j \in 1..(k - 1) : ~Holds(segment_boundaries, j, mid_dist)
        ELSE 0

\* lines 693-708, 714: the label the limit is looked up with: the first
\* step's road type, else its way type, else the segment's own
TypeLabel(segment) ==
    LET steps_in_seg == segment.steps
        way0 == IF Len(steps_in_seg) > 0 THEN steps_in_seg[1].way_type ELSE NoLabel
        road0 == IF Len(steps_in_seg) > 0 THEN steps_in_seg[1].road_type ELSE NoLabel
        fallback == Len(road0) = 0 /\ Len(way0) = 0
        way_type == IF fallback THEN segment.way_type ELSE way0
        road_type == IF fallback THEN segment.road_type ELSE road0
    IN  IF Len(road_type) > 0 THEN road_type ELSE way_type

\* the leg falls in a segment that carries a road type or a way type
LegTyped(coord_distances, segment_boundaries, leg) ==
    LET found == SegmentFound(coord_distances, segment_boundaries, leg)
    IN  /\ found # 0
        /\ Len(TypeLabel(segment_boundaries[found].segment)) > 0

\* lines 682-722: the speed appended for the leg
LegSpeed(coord_distances, segment_boundaries, candidate_speed, user_max_speed, min_speed_delta, leg) ==
    IF LegTyped(coord_distances, segment_boundaries, leg)
    THEN ClampSpeed(candidate_speed,
                    get_speed_limit_by_road_type(
                        TypeLabel(segment_boundaries[
                            SegmentFound(coord_distances, segment_boundaries,
                                         leg)].segment),
                        user_max_speed),
                    min_speed_delta)
    ELSE candidate_speed

\* [candidate_speed] * (len(coords) - 1)
UniformSpeeds_perPoint(coords, candidate_speed) ==
    [leg \in 1..Len(coords) |-> candidate_speed]
UniformSpeeds(coords, candidate_speed) ==
    [leg \in 1..(Len(coords) - 1) |-> candidate_speed]

\* lines 653-726, what follows the early return
SegmentedSpeeds(coords, detailed_segments, candidate_speed, user_max_speed, min_speed_delta) ==
    LET segment_boundaries == SegmentBoundaries(detailed_segments)
        coord_distances == ScaledCoordDistances(coords, segment_boundaries)
        found_road_types ==
            \E leg \in 1..(Len(coords) - 1) :
                LegTyped(coord_distances, segment_boundaries, leg)
    IN  IF ~found_road_types
        THEN UniformSpeeds(coords, candidate_speed)
        ELSE [leg \in 1..(Len(coords) - 1) |->
                 LegSpeed(coord_distances, segment_boundaries, candidate_speed,
                          user_max_speed, min_speed_delta, leg)]

create_segmented_speeds_ignoreSteps(coords, steps, detailed_segments, candidate_speed, user_max_speed, min_speed_delta) ==
    IF Len(detailed_segments) = 0
    THEN UniformSpeeds(coords, candidate_speed)
    ELSE SegmentedSpeeds(coords, detailed_segments, candidate_speed,
                         user_max_speed, min_speed_delta)
create_segmented_speeds(coords, steps, detailed_segments, candidate_speed, user_max_speed, min_speed_delta) ==
    IF Len(steps) = 0 \/ Len(detailed_segments) = 0
    THEN UniformSpeeds(coords, candidate_speed)
    ELSE SegmentedSpeeds(coords, detailed_segments, candidate_speed,
                         user_max_speed, min_speed_delta)

\* detailed segments: typed by the first step's road type, by its way type,
\* by the segment's own road type, by the segment's own way type with no
\* step, and not typed at all
MaxSegments == 2
TypedStep(road_type, way_type) == [road_type |-> road_type, way_type |-> way_type]
SegmentPool == {
    [distance |-> 1000, steps |-> <<TypedStep(<<"m", "o", "t", "o", "r", "w", "a", "y">>, NoLabel)>>,
     road_type |-> NoLabel, way_type |-> NoLabel],
    [distance |-> 1000, steps |-> <<TypedStep(NoLabel, <<"r", "e", "s", "i", "d", "e", "n", "t", "i", "a", "l">>)>>,
     road_type |-> <<"t", "r", "u", "n", "k">>, way_type |-> NoLabel],
    [distance |-> 2000, steps |-> <<TypedStep(NoLabel, NoLabel)>>,
     road_type |-> <<"p", "r", "i", "m", "a", "r", "y">>, way_type |-> NoLabel],
    [distance |-> 500, steps |-> <<>>,
     road_type |-> NoLabel, way_type |-> <<"s", "e", "r", "v", "i", "c", "e">>],
    [distance |-> 1000, steps |-> <<TypedStep(NoLabel, NoLabel)>>,
     road_type |-> NoLabel, way_type |-> NoLabel] }
\* routes of equal legs, and two routes of unequal legs
LegLengths == {1000}
UnequalLegs == {<<500, 1500>>, <<1500, 500, 500>>}

\* the points at the ends of legs of the given lengths
RECURSIVE PointsAlong(_)
PointsAlong(lengths) ==
    IF Len(lengths) = 0
    THEN <<[pos |-> Int2R(0), has_lonlat |-> TRUE]>>
    ELSE LET before == PointsAlong(SubSeq(lengths, 1, Len(lengths) - 1))
         IN  Append(before,
                    [pos |-> RAdd(before[Len(before)].pos,
                                  Int2R(lengths[Len(lengths)])),
                     has_lonlat |-> TRUE])

SpeedsInputs ==
    [coords : {PointsAlong(lengths) :
                   lengths \in SeqsUpTo(LegLengths, MaxLegs) \cup UnequalLegs}
                 \cup {<<>>},
     steps : {<<>>, <<TypedStep(NoLabel, NoLabel)>>},
     detailed_segments : SeqsUpTo(SegmentPool, MaxSegments),
     candidate_speed : {50, 90, 130},
     user_max_speed : {50, 130},
     min_speed_delta : {0, 20, 50}]

InitSpeeds == FnStart(SpeedsInputs)
CreateSegmentedSpeeds ==
    FnReturn("speeds",
             create_segmented_speeds(fn_in.coords, fn_in.steps,
                                     fn_in.detailed_segments,
                                     fn_in.candidate_speed, fn_in.user_max_speed,
                                     fn_in.min_speed_delta))
NextSpeeds == CreateSegmentedSpeeds
SpecSpeeds == InitSpeeds /\ [][NextSpeeds]_vars

\* the legs the function classifies: it was given steps and segments, the
\* leg's midpoint falls in a segment, and that segment carries a type
MidSegment(leg) ==
    SegmentFound(ScaledCoordDistances(fn_in.coords,
                                      SegmentBoundaries(fn_in.detailed_segments)),
                 SegmentBoundaries(fn_in.detailed_segments), leg)
Classified(leg) ==
    /\ Len(fn_in.steps) > 0
    /\ Len(fn_in.detailed_segments) > 0
    /\ leg \in 1..(Len(fn_in.coords) - 1)
    /\ MidSegment(leg) # 0
    /\ Len(TypeLabel(fn_in.detailed_segments[MidSegment(leg)])) > 0
\* the limit L of a classified leg, and the bounds the claim names
LimitOf(leg) ==
    get_speed_limit_by_road_type(
        TypeLabel(fn_in.detailed_segments[MidSegment(leg)]),
        fn_in.user_max_speed)
LowerOf(leg) ==
    IF LimitOf(leg) - fn_in.min_speed_delta > 30
    THEN LimitOf(leg) - fn_in.min_speed_delta
    ELSE 30
UpperOf(leg) ==
    IF fn_in.candidate_speed < LimitOf(leg)
    THEN fn_in.candidate_speed
    ELSE LimitOf(leg)

C15_Raised ==
    /\ fn_pc = "speeds"
    /\ fn_in.candidate_speed = 50
    /\ fn_in.min_speed_delta = 20
    /\ \E leg \in 1..Len(fn_out[1]) :
          /\ Classified(leg)
          /\ LimitOf(leg) = 130
          /\ fn_out[1][leg] = 110

NoTypeAnywhere ==
    \/ Len(fn_in.steps) = 0
    \/ Len(fn_in.detailed_segments) = 0
    \/ \A leg \in 1..(Len(fn_in.coords) - 1) : ~Classified(leg)

\* C16: with no steps, no detailed segments, or no leg falling in a segment
\* that carries a road or way type, the result is the candidate speed for
\* every leg.
C16_UniformFallback ==
    (fn_pc = "speeds" /\ NoTypeAnywhere) =>
        /\ Len(fn_out[1]) = (IF Len(fn_in.coords) = 0 THEN 0
                             ELSE Len(fn_in.coords) - 1)
        /\ \A leg \in 1..Len(fn_out[1]) : fn_out[1][leg] = fn_in.candidate_speed

\* C16 witness: three legs, steps given, two segments neither of which
\* carries a type: 90 on every leg
C16_Witness ==
    /\ fn_pc = "speeds"
    /\ Len(fn_in.steps) > 0
    /\ Len(fn_in.detailed_segments) = 2
    /\ Len(fn_in.coords) = 4
    /\ \A leg \in 1..3 :
          /\ MidSegment(leg) # 0
          /\ ~Classified(leg)
    /\ fn_out[1] = <<90, 90, 90>>

\* C16 second witness: typed segments but no steps: uniform all the same
C16_NoSteps ==
    /\ fn_pc = "speeds"
    /\ Len(fn_in.steps) = 0
    /\ Len(fn_in.detailed_segments) > 0
    /\ Len(TypeLabel(fn_in.detailed_segments[1])) > 0
    /\ fn_in.candidate_speed = 130
    /\ fn_in.user_max_speed = 50
    /\ fn_out[1] = <<130, 130>>

(***************************************************************************)
(* The slowdown post-process of run_btn (lines 1121-1128): the loop over   *)
(* the slowdown points, one point per step.  fn_out holds the list of      *)
(* per-leg speeds as it stands and the position of the loop.               *)
(***************************************************************************)
\* int() of a real: truncation toward zero
RTrunc(a) == IF a.n >= 0 THEN a.n \div a.d ELSE 0 - ((0 - a.n) \div a.d)

SlowdownIndex_stepIndex(step_idx, n_steps, n_coords, n_speeds) ==
    Min2(step_idx, n_speeds - 1)
\* lines 1125-1126: coord_ratio and coord_idx (counted from 0)
SlowdownIndex(step_idx, n_steps, n_coords, n_speeds) ==
    LET coord_ratio == Rat(step_idx, Max2(n_steps, 1))
    IN  Min2(RTrunc(RMul(coord_ratio, Int2R(n_coords - 1))), n_speeds - 1)

\* lines 1123-1128: the body of the loop for one slowdown point
Slowed(segmented_speeds, slowdown, n_steps, n_coords) ==
    LET step_idx == slowdown.step_index
        coord_idx == SlowdownIndex(step_idx, n_steps, n_coords,
                                   Len(segmented_speeds))
    IN  IF n_steps > 0 /\ 0 <= coord_idx /\ coord_idx < Len(segmented_speeds)
        THEN [segmented_speeds EXCEPT
                 ![coord_idx + 1] = RMax(RMul(@, Rat(7, 10)), Int2R(30))]
        ELSE segmented_speeds

ROUNDABOUT == "roundabout"
SHARP_TURN == "sharp_turn"
SlowdownPoint(type, step_index) == [type |-> type, step_index |-> step_index]

\* the slowdown points the detection can give for steps 0..n-1: per step,
\* in order, a roundabout point or none, then a sharp-turn point or none
MaxSteps == 3
RECURSIVE SlowdownLists(_)
SlowdownLists(n) ==
    IF n = 0 THEN {<<>>}
    ELSE {before \o here :
             before \in SlowdownLists(n - 1),
             here \in {<<>>,
                       <<SlowdownPoint(ROUNDABOUT, n - 1)>>,
                       <<SlowdownPoint(SHARP_TURN, n - 1)>>,
                       <<SlowdownPoint(ROUNDABOUT, n - 1),
                         SlowdownPoint(SHARP_TURN, n - 1)>>}}
\* per-leg speeds as create_segmented_speeds returns them
LegSpeeds == {Int2R(20), Int2R(40), Int2R(110)}

\* steps is not empty here (line 1118) and there is one speed per leg
SlowInputs ==
    UNION {[n_steps : {n}, n_coords : {c},
            slowdown_points : SlowdownLists(n),
            segmented_speeds : [1..(c - 1) -> LegSpeeds]] :
           n \in 1..MaxSteps, c \in 1..(MaxLegs + 1)}

InitSlow ==
    /\ RunIdle
    /\ fn_pc = "slow"
    /\ fn_in \in SlowInputs
    /\ charge_out = <<>>
    /\ record_out = <<>>
    /\ fn_out = <<[speeds |-> fn_in.segmented_speeds, next |-> 1]>>

\* one turn of the loop
ApplySlowdown ==
    /\ fn_pc = "slow"
    /\ fn_out[1].next <= Len(fn_in.slowdown_points)
    /\ fn_out' = <<[speeds |-> Slowed(fn_out[1].speeds,
                                      fn_in.slowdown_points[fn_out[1].next],
                                      fn_in.n_steps, fn_in.n_coords),
                    next |-> fn_out[1].next + 1]>>
    /\ UNCHANGED <<fn_pc, fn_in, charge_out, record_out>>
    /\ UNCHANGED <<inputVars, runVars>>

\* the loop is over, the list goes to route_energy_time
SlowdownsDone ==
    /\ fn_pc = "slow"
    /\ fn_out[1].next > Len(fn_in.slowdown_points)
    /\ fn_pc' = "slowed"
    /\ UNCHANGED <<fn_in, charge_out, record_out, fn_out>>
    /\ UNCHANGED <<inputVars, runVars>>

NextSlow == ApplySlowdown \/ SlowdownsDone
SpecSlow == InitSlow /\ [][NextSlow]_vars

\* the leg (counted from 1) the claim names for step index k
NamedLeg(k) ==
    LET floor == (k * (fn_in.n_coords - 1)) \div fn_in.n_steps
        legCount == fn_in.n_coords - 1
    IN  (IF floor < legCount - 1 THEN floor ELSE legCount - 1) + 1
\* 0.7 x speed, floored at 30
Reduced(speed) ==
    IF 7 * speed.n >= 300 * speed.d THEN Rat(7 * speed.n, 10 * speed.d)
    ELSE Int2R(30)

intersection_keywords == <<
    <<"t", "o", "u", "r", "n", "e", "z">>,
    <<"t", "o", "u", "r", "n", "e", "r">>,
    <<"t", "u", "r", "n">>,
    <<"t", "o", "u", "r", "n", "é">>,
    <<"t", "o", "u", "r", "n", "a", "n", "t">>,
    <<"r", "o", "u", "n", "d", "a", "b", "o", "u", "t">>,
    <<"r", "o", "n", "d", "-", "p", "o", "i", "n", "t">>,
    <<"r", "o", "n", "d", " ", "p", "o", "i", "n", "t">>,
    <<"r", "o", "u", "n", "d", "-", "a", "b", "o", "u", "t">>,
    <<"b", "i", "f", "u", "r", "q", "u", "e", "z">>,
    <<"b", "i", "f", "u", "r", "c", "a", "t", "i", "o", "n">>,
    <<"f", "o", "r", "k">>,
    <<"b", "i", "f", "u", "r", "q", "u", "e", "r">>,
    <<"u", "-", "t", "u", "r", "n">>,
    <<"d", "e", "m", "i", "-", "t", "o", "u", "r">>,
    <<"u", "t", "u", "r", "n">>,
    <<"m", "e", "r", "g", "e">>,
    <<"m", "e", "r", "g", "e", "z">>,
    <<"f", "u", "s", "i", "o", "n">>,
    <<"j", "o", "n", "c", "t", "i", "o", "n">>,
    <<"j", "u", "n", "c", "t", "i", "o", "n">>,
    <<"j", "o", "i", "n">>,
    <<"q", "u", "i", "t", "t", "e", "z">>,
    <<"e", "x", "i", "t">>,
    <<"s", "o", "r", "t", "i", "e">>,
    <<"c", "o", "n", "t", "i", "n", "u", "e", "z">>,
    <<"c", "o", "n", "t", "i", "n", "u", "e">>,
    <<"p", "r", "e", "n", "e", "z">>,
    <<"t", "a", "k", "e">>,
    <<"i", "n", "t", "e", "r", "s", "e", "c", "t", "i", "o", "n">>,
    <<"c", "r", "o", "i", "s", "e", "m", "e", "n", "t">>,
    <<"c", "r", "o", "s", "s", "i", "n", "g">> >>

\* line 637: the spellings that add a slowdown point
RoundaboutSpellings == {<<"r", "o", "u", "n", "d", "a", "b", "o", "u", "t">>,
                        <<"r", "o", "n", "d", "-", "p", "o", "i", "n", "t">>,
                        <<"r", "o", "n", "d", " ", "p", "o", "i", "n", "t">>}

\* any(keyword in instr for keyword in intersection_keywords)
AnyKeyword(instr) ==
    \E k \in 1..Len(intersection_keywords) : Contains(intersection_keywords[k], instr)

\* lines 630-645: the body of the loop for step number idx
Scanned(found, step, idx) ==
    LET instr == Lower(step.instruction)
        step_type == step.type
        distance == step.distance
        marked == IF AnyKeyword(instr)
                  THEN Append(found.intersections, idx)
                  ELSE found.intersections
        rounded == IF \E w \in RoundaboutSpellings : Contains(w, instr)
                   THEN Append(found.slowdown_points, SlowdownPoint(ROUNDABOUT, idx))
                   ELSE found.slowdown_points
        turned == IF step_type \in 1..6 /\ distance < 100
                  THEN Append(rounded, SlowdownPoint(SHARP_TURN, idx))
                  ELSE rounded
    IN  [intersections |-> marked, slowdown_points |-> turned]

\* for i, step in enumerate(steps), the first k steps
RECURSIVE ScanSteps(_, _)
ScanSteps(steps, k) ==
    IF k = 0 THEN [intersections |-> <<>>, slowdown_points |-> <<>>]
    ELSE Scanned(ScanSteps(steps, k - 1), steps[k], k - 1)

detect_intersections_improved(steps) == ScanSteps(steps, Len(steps))

\* steps as the routing service words them: instruction, maneuver-type code
\* and length in metres
StepPool == {
    [instruction |-> <<"T", "u", "r", "n", " ", "l", "e", "f", "t">>,
     type |-> 0, distance |-> 250],
    [instruction |-> <<"T", "u", "r", "n", " ", "r", "i", "g", "h", "t">>,
     type |-> 1, distance |-> 60],
    [instruction |-> <<"E", "n", "t", "e", "r", " ", "t", "h", "e", " ", "R", "o", "u", "n", "d", "a", "b", "o", "u", "t">>,
     type |-> 7, distance |-> 30],
    [instruction |-> <<"P", "r", "e", "n", "e", "z", " ", "l", "e", " ", "r", "o", "n", "d", "-", "p", "o", "i", "n", "t">>,
     type |-> 3, distance |-> 80],
    [instruction |-> <<"H", "e", "a", "d", " ", "n", "o", "r", "t", "h">>,
     type |-> 11, distance |-> 99],
    [instruction |-> <<"E", "n", "t", "e", "r", " ", "t", "h", "e", " ", "r", "o", "u", "n", "d", "-", "a", "b", "o", "u", "t">>,
     type |-> 7, distance |-> 500],
    [instruction |-> <<"K", "e", "e", "p", " ", "g", "o", "i", "n", "g">>,
     type |-> 6, distance |-> 100],
    [instruction |-> <<"A", "r", "r", "i", "v", "e">>,
     type |-> 5, distance |-> 0] }

InitDetect == FnStart([steps : SeqsUpTo(StepPool, MaxSteps)])
DetectIntersections ==
    FnReturn("detect", detect_intersections_improved(fn_in.steps))
NextDetect == DetectIntersections
SpecDetect == InitDetect /\ [][NextDetect]_vars

\* step k (counted from 0) of the steps scanned, its instruction lower-cased
StepAt(k) == fn_in.steps[k + 1]
InstructionAt(k) == Lower(StepAt(k).instruction)
Marked(k) ==
    \E w \in 1..Len(intersection_keywords) :
        Contains(intersection_keywords[w], InstructionAt(k))
\* the keywords of the list that spell a roundabout
RoundaboutKeywords == {<<"r", "o", "u", "n", "d", "a", "b", "o", "u", "t">>,
                       <<"r", "o", "n", "d", "-", "p", "o", "i", "n", "t">>,
                       <<"r", "o", "n", "d", " ", "p", "o", "i", "n", "t">>,
                       <<"r", "o", "u", "n", "d", "-", "a", "b", "o", "u", "t">>}
SharpAt(k) == StepAt(k).type \in {1, 2, 3, 4, 5, 6} /\ StepAt(k).distance < 100

\* the slowdown points of steps 0..k-1 in step order, a roundabout point for
\* an instruction holding one of the spellings, then a sharp-turn point
RECURSIVE SlowdownsUpTo(_, _)
SlowdownsUpTo(k, spellings) ==
    IF k = 0 THEN <<>>
    ELSE SlowdownsUpTo(k - 1, spellings)
         \o (IF \E w \in spellings : Contains(w, InstructionAt(k - 1))
             THEN <<[type |-> "roundabout", step_index |-> k - 1]>> ELSE <<>>)
         \o (IF SharpAt(k - 1)
             THEN <<[type |-> "sharp_turn", step_index |-> k - 1]>> ELSE <<>>)

IntersectionsExact ==
    LET found == fn_out[1].intersections
    IN  /\ \A p \in 1..(Len(found) - 1) : found[p] < found[p + 1]
        /\ {found[p] : p \in 1..Len(found)}
              = {k \in 0..(Len(fn_in.steps) - 1) : Marked(k)}

\* C18: the intersections are exactly the indices, increasing, of the steps
\* whose instruction holds a keyword of the list; the slowdown points are, in
\* step order, a "roundabout" point for every step whose instruction holds a
\* roundabout keyword and a "sharp_turn" point for every step of type 1..6
\* and distance under 100 m, and no other; no step gives two empty lists.
C18_DetectScan ==
    fn_pc = "detect" =>
        /\ IntersectionsExact
        /\ fn_out[1].slowdown_points
              = SlowdownsUpTo(Len(fn_in.steps), RoundaboutKeywords)

\* what the scan does: the same with the three spellings of line 637, so
\* that "round-about" marks an intersection and adds no slowdown point
DetectScanAsCoded ==
    fn_pc = "detect" =>
        /\ IntersectionsExact
        /\ fn_out[1].slowdown_points
              = SlowdownsUpTo(Len(fn_in.steps), RoundaboutKeywords \ {<<"r", "o", "u", "n", "d", "-", "a", "b", "o", "u", "t">>})

\* a scan of "Turn right" (type 1, 60 m), "Prenez le rond-point" (type 3,
\* 80 m) and "Head north": intersections 0 and 1, three slowdown points
DetectScanExample ==
    /\ fn_pc = "detect"
    /\ Len(fn_in.steps) = 3
    /\ fn_out[1].intersections = <<0, 1>>
    /\ fn_out[1].slowdown_points
          = <<[type |-> "sharp_turn", step_index |-> 0],
              [type |-> "roundabout", step_index |-> 1],
              [type |-> "sharp_turn", step_index |-> 1]>>

\* the scan of the single step "Enter the round-about": an intersection and
\* no slowdown point
RoundAboutNotSlowed ==
    /\ fn_pc = "detect"
    /\ Len(fn_in.steps) = 1
    /\ fn_in.steps[1].instruction = <<"E", "n", "t", "e", "r", " ", "t", "h", "e", " ", "r", "o", "u", "n", "d", "-", "a", "b", "o", "u", "t">>
    /\ fn_out[1] = [intersections |-> <<0>>, slowdown_points |-> <<>>]


(***************************************************************************)
(* HVAC power model: hvac_electric_power_kw.                               *)
(***************************************************************************)
\* the parameters of one HVAC profile, with the defaults of lines 157-164
\* for the two keys no profile of HVAC_PROFILES carries
HvacProfile(heat_type, max_kw, cabin_factor, cop, target_cabin_c, deadband_c) ==
    [heat_type |-> heat_type, max_heat_kw |-> max_kw[1],
     max_cool_kw |-> max_kw[2], cabin_factor |-> cabin_factor,
     cop_heat |-> cop[1], cop_cool |-> cop[2],
     target_cabin_c |-> target_cabin_c, deadband_c |-> deadband_c]

\* max(0.0, min(100.0, float(intensity_pct))) / 100.0
Intensity(intensity_pct) ==
    RDiv(RMax(Int2R(0), RMin(Int2R(100), intensity_pct)), Int2R(100))

\* the thermal demand and its electrical draw, before the intensity scales it
HvacDraw(temp_c, p) ==
    LET heat_below == RSub(p.target_cabin_c, p.deadband_c)
        cool_above == RAdd(p.target_cabin_c, p.deadband_c)
    IN  IF RLt(temp_c, heat_below)
        THEN LET delta == RSub(heat_below, temp_c)
                 q_th == RMin(p.max_heat_kw,
                              RMul(RMul(p.cabin_factor, Rat(35, 100)), delta))
             IN  IF Lower(p.heat_type) = <<"r", "e", "s", "i", "s", "t", "i", "v", "e">>
                 THEN q_th
                 ELSE RDiv(q_th, RMax(p.cop_heat, Rat(1, 1000)))
        ELSE IF RLt(cool_above, temp_c)
        THEN LET delta == RSub(temp_c, cool_above)
                 q_th == RMin(p.max_cool_kw,
                              RMul(RMul(p.cabin_factor, Rat(25, 100)), delta))
             IN  RDiv(q_th, RMax(p.cop_cool, Rat(1, 1000)))
        ELSE RMul(Rat(2, 10), p.cabin_factor)

hvac_electric_power_kw_fullBlast(temp_c, intensity_pct, p) ==
    LET inten == Intensity(intensity_pct)
    IN  IF RLeq(inten, Int2R(0)) THEN Int2R(0) ELSE HvacDraw(temp_c, p)
hvac_electric_power_kw(temp_c, intensity_pct, p) ==
    LET inten == Intensity(intensity_pct)
    IN  IF RLeq(inten, Int2R(0))
        THEN Int2R(0)
        ELSE RMul(HvacDraw(temp_c, p), inten)

\* two profiles of HVAC_PROFILES (Tesla Model 3, BMW i3) and two custom
\* settings at the ends of the sliders, one of them resistive with a
\* heating COP other than 1
HvacParams ==
    {HvacProfile(<<"h", "e", "a", "t", "_", "p", "u", "m", "p">>,
                 <<Int2R(5), Int2R(3)>>, Int2R(1),
                 <<Rat(28, 10), Rat(26, 10)>>, Int2R(21), Int2R(2)),
     HvacProfile(<<"r", "e", "s", "i", "s", "t", "i", "v", "e">>,
                 <<Int2R(4), Rat(22, 10)>>, Rat(8, 10),
                 <<Int2R(1), Rat(23, 10)>>, Int2R(21), Int2R(2)),
     HvacProfile(<<"r", "e", "s", "i", "s", "t", "i", "v", "e">>,
                 <<Int2R(8), Int2R(6)>>, Rat(16, 10),
                 <<Rat(5, 2), Int2R(4)>>, Int2R(18), Rat(1, 2)),
     HvacProfile(<<"h", "e", "a", "t", "_", "p", "u", "m", "p">>,
                 <<Int2R(2), Rat(3, 2)>>, Rat(6, 10),
                 <<Int2R(4), Int2R(1)>>, Int2R(24), Int2R(3))}

\* the slider gives 0..100 in steps of 10; the function clamps anything
HvacIntensities ==
    {Int2R(0 - 10), Int2R(0), Int2R(10), Int2R(50), Int2R(100), Int2R(150)}

InitHvac ==
    FnStart([temp_c : Temperatures, intensity_pct : HvacIntensities,
             hvac_params : HvacParams])
HvacElectricPower ==
    FnReturn("hvac", hvac_electric_power_kw(fn_in.temp_c, fn_in.intensity_pct,
                                            fn_in.hvac_params))
NextHvac == HvacElectricPower
SpecHvac == InitHvac /\ [][NextHvac]_vars

\* the three cases of the claim, as predicates of the call's arguments
Heating == RLt(fn_in.temp_c, RSub(fn_in.hvac_params.target_cabin_c,
                                  fn_in.hvac_params.deadband_c))
Cooling == RLt(RAdd(fn_in.hvac_params.target_cabin_c,
                    fn_in.hvac_params.deadband_c), fn_in.temp_c)
InDeadband ==
    /\ RLeq(RSub(fn_in.hvac_params.target_cabin_c,
                 fn_in.hvac_params.deadband_c), fn_in.temp_c)
    /\ RLeq(fn_in.temp_c, RAdd(fn_in.hvac_params.target_cabin_c,
                               fn_in.hvac_params.deadband_c))
ClampedIntensity ==
    IF RLt(fn_in.intensity_pct, Int2R(0)) THEN Int2R(0)
    ELSE IF RLt(Int2R(100), fn_in.intensity_pct) THEN Int2R(100)
    ELSE fn_in.intensity_pct
\* draw * intensity / 100
Share(draw) == Rat(draw.n * ClampedIntensity.n, draw.d * ClampedIntensity.d * 100)
HeatDemand ==
    LET p == fn_in.hvac_params
        delta == RSub(RSub(p.target_cabin_c, p.deadband_c), fn_in.temp_c)
        wanted == Rat(p.cabin_factor.n * 35 * delta.n,
                      p.cabin_factor.d * 100 * delta.d)
    IN  IF RLeq(p.max_heat_kw, wanted) THEN p.max_heat_kw ELSE wanted
CoolDemand ==
    LET p == fn_in.hvac_params
        delta == RSub(RSub(fn_in.temp_c, p.target_cabin_c), p.deadband_c)
        wanted == Rat(p.cabin_factor.n * 25 * delta.n,
                      p.cabin_factor.d * 100 * delta.d)
    IN  IF RLeq(p.max_cool_kw, wanted) THEN p.max_cool_kw ELSE wanted
Over(q, cop) == Rat(q.n * cop.d, q.d * cop.n)

\* C21: the HVAC power is 0 when the clamped intensity is <= 0; otherwise
\* exactly one of heating, cooling and deadband applies, with the draw
\* min(maxHeat, cabinFactor*0.35*delta) (resistive) or that over COP_heat,
\* min(maxCool, cabinFactor*0.25*delta) over COP_cool, or 0.2*cabinFactor,
\* and the result is the draw times intensity/100.
C21_HvacPower ==
    fn_pc = "hvac" =>
        LET p == fn_in.hvac_params
            power == fn_out[1]
            resistive == p.heat_type = <<"r", "e", "s", "i", "s", "t", "i", "v", "e">>
        IN  IF RLeq(ClampedIntensity, Int2R(0))
            THEN power = Int2R(0)
            ELSE /\ Cardinality({c \in {"heat", "cool", "idle"} :
                        \/ c = "heat" /\ Heating
                        \/ c = "cool" /\ Cooling
                        \/ c = "idle" /\ InDeadband}) = 1
                 /\ Heating /\ resistive => power = Share(HeatDemand)
                 /\ Heating /\ ~resistive =>
                        power = Share(Over(HeatDemand, p.cop_heat))
                 /\ Cooling => power = Share(Over(CoolDemand, p.cop_cool))
                 /\ InDeadband =>
                        power = Share(Rat(2 * p.cabin_factor.n,
                                          10 * p.cabin_factor.d))

\* Tesla Model 3 profile at -80 degC and 50 %: demand capped at 5 kW, over
\* COP 2.8, halved
C21_Witness ==
    /\ fn_pc = "hvac"
    /\ fn_in.temp_c = Int2R(0 - 80)
    /\ fn_in.intensity_pct = Int2R(50)
    /\ fn_in.hvac_params.cop_heat = Rat(28, 10)
    /\ fn_out[1] = Rat(25, 28)


(***************************************************************************)
(* C22: parameter validation                                               *)
(***************************************************************************)
\* the vehicle of the run has a total mass <= 0 or an efficiency outside ]0, 1]
InvalidVehicle ==
    \/ veh.mass_kg <= 0
    \/ veh.eta_drive.n <= 0
    \/ veh.eta_drive.n > veh.eta_drive.d

\* C22: with a total mass <= 0 or a drivetrain efficiency <= 0 or > 1 the
\* run is rejected and aborts before any candidate speed is simulated: it
\* never leaves the validation except to stop with the error, no candidate
\* is simulated and no result record is created.
C22_InvalidVehicleAborts ==
    InvalidVehicle =>
        /\ pc \in {"validate", "stopped"}
        /\ pc = "stopped" => message = "Invalid vehicle parameters"
        /\ candidates = <<>>
        /\ i = 1
        /\ results = <<>>
        /\ warnings = <<>>
        /\ metrics = <<>>

\* a run with efficiency 0, three typed speeds under the ceiling, stopped
C22_Witness ==
    /\ veh.eta_drive = Int2R(0)
    /\ Len(candidate_speeds) = 3
    /\ candidate_speeds[3] <= user_speed_limit
    /\ pc = "stopped"
    /\ message = "Invalid vehicle parameters"
    /\ results = <<>>


(***************************************************************************)
(* Elevation handling of run_btn, from the route returned by ors_route to  *)
(* "Route and elevations retrieved".  A point is <<lon, lat>> or           *)
(* <<lon, lat, z>>; points lie on one line, lon is the distance along it   *)
(* in metres, so that the haversine distance of two points is |lon2-lon1|. *)
(* Routes have at most 1000 points: ors_elevation_along sends all of them. *)
(***************************************************************************)
\* [0.0 for _ in coords]
FlatProfile(coords) == [k \in 1..Len(coords) |-> 0]

\* the elevation service: a failed request, or the samples of its answer
ServiceFailed == [ok |-> FALSE, samples |-> <<>>]
ServiceSamples(samples) == [ok |-> TRUE, samples |-> samples]

\* what a call of a function gives: a value or an exception
Returned(value) == [raised |-> FALSE, value |-> value]
Raised == [raised |-> TRUE, value |-> <<>>]

\* ors_elevation_along(coords, api_key)
ors_elevation_along(coords, service) ==
    IF coords # <<>> /\ Len(coords[1]) = 3
    THEN IF \A k \in 1..Len(coords) : Len(coords[k]) >= 3
         THEN Returned([k \in 1..Len(coords) |-> coords[k][3]])
         ELSE Raised
    ELSE IF ~service.ok
    THEN Returned(FlatProfile(coords))
    ELSE IF /\ service.samples # <<>>
            /\ \A k \in 1..Len(service.samples) : service.samples[k] = 0
    THEN Returned(FlatProfile(coords))
    ELSE Returned(service.samples)

\* lines 980-996
FetchedElevations_unchecked(coords, use_elevation, service) ==
    IF ~use_elevation THEN FlatProfile(coords)
    ELSE IF Len(coords) <= 2 THEN FlatProfile(coords)
    ELSE LET elevations == ors_elevation_along(coords, service)
         IN  IF elevations.raised THEN FlatProfile(coords)
             ELSE elevations.value
FetchedElevations(coords, use_elevation, service) ==
    IF ~use_elevation THEN FlatProfile(coords)
    ELSE IF Len(coords) <= 2 THEN FlatProfile(coords)
    ELSE LET elevations == ors_elevation_along(coords, service)
         IN  IF elevations.raised THEN FlatProfile(coords)
             ELSE IF Len(elevations.value) # Len(coords)
             THEN FlatProfile(coords)
             ELSE elevations.value

\* n_points = max(50, min(500, int(max(d0_m, 1.0) / 1000.0) * 10))
SimplifiedPoints(d0_m) == Max2(50, Min2(500, (Max2(d0_m, 1) \div 1000) * 10))

\* [[lon, lat, 0] for lon, lat in zip(np.linspace(...), np.linspace(...))]
SimplifiedRoute(coords) ==
    LET d0_m == Abs(coords[2][1].n - coords[1][1].n)
        n_points == SimplifiedPoints(d0_m)
    IN  [k \in 1..n_points |->
            <<RAdd(coords[1][1],
                   Rat((k - 1) * (coords[2][1].n - coords[1][1].n),
                       n_points - 1)),
              Int2R(0), 0>>]

\* lines 1019-1025: the elevations of the simplified route
SimplifiedElevations(coords, use_elevation, service) ==
    LET elev_try == ors_elevation_along(coords, service)
    IN  IF use_elevation /\ ~elev_try.raised
           /\ Len(elev_try.value) = Len(coords)
        THEN elev_try.value
        ELSE FlatProfile(coords)


\* routes of 0..MaxPoints points as ors_route can return them, every
\* spacing metres apart: without elevation, with elevation on every point,
\* on the first point only, or on every point but the first
MaxPoints == 4
ElevPoint(k, spacing, with_z) ==
    IF with_z THEN <<Int2R((k - 1) * spacing), Int2R(0), 10 * k>>
    ELSE <<Int2R((k - 1) * spacing), Int2R(0)>>
ElevRoutes ==
    {[k \in 1..n |-> ElevPoint(k, spacing,
                               CASE kind = "plain" -> FALSE
                                 [] kind = "with_z" -> TRUE
                                 [] kind = "first_z" -> k = 1
                                 [] kind = "rest_z" -> k > 1)] :
        n \in 0..MaxPoints, spacing \in {4000, 12000, 70000},
        kind \in {"plain", "with_z", "first_z", "rest_z"}}
\* answers of the elevation service: none, all-zero samples, rising samples
ServiceOutcomes ==
    {ServiceFailed}
    \cup {ServiceSamples([k \in 1..n |-> 0]) : n \in 0..(MaxPoints + 1)}
    \cup {ServiceSamples([k \in 1..n |-> 100 + 10 * k]) :
            n \in 0..(MaxPoints + 1)}

InitElev ==
    /\ RunIdle
    /\ fn_pc = "route"
    /\ fn_in \in [coords : ElevRoutes, use_elevation : BOOLEAN,
                  service : ServiceOutcomes]
    /\ charge_out = <<>>
    /\ record_out = <<>>
    /\ fn_out = <<[coords |-> fn_in.coords, elevations |-> <<>>,
                   message |-> ""]>>

\* lines 971-975: if not coords or len(coords) < 2: st.error, st.stop
NoRoute ==
    /\ fn_pc = "route"
    /\ Len(fn_out[1].coords) < 2
    /\ fn_out' = <<[fn_out[1] EXCEPT !.message = "No route found."]>>
    /\ fn_pc' = "stopped"
    /\ UNCHANGED <<fn_in, charge_out, record_out>>
    /\ UNCHANGED <<inputVars, runVars>>

\* lines 980-996
FetchElevation ==
    /\ fn_pc = "route"
    /\ Len(fn_out[1].coords) >= 2
    /\ fn_out' = <<[fn_out[1] EXCEPT
                      !.elevations = FetchedElevations(fn_out[1].coords,
                                                       fn_in.use_elevation,
                                                       fn_in.service)]>>
    /\ fn_pc' = "shape"
    /\ UNCHANGED <<fn_in, charge_out, record_out>>
    /\ UNCHANGED <<inputVars, runVars>>

\* lines 998-1027: a route of fewer than 2 points stops the run, a route of
\* 2 points becomes a straight line of n_points points
ShapeRoute ==
    /\ fn_pc = "shape"
    /\ IF Len(fn_out[1].coords) < 2
       THEN /\ fn_out' = <<[fn_out[1] EXCEPT
                              !.message = "Invalid route: fewer than 2 points"]>>
            /\ fn_pc' = "stopped"
       ELSE IF Len(fn_out[1].coords) = 2
       THEN LET coords == SimplifiedRoute(fn_out[1].coords)
            IN  /\ fn_out' = <<[coords |-> coords,
                                elevations |->
                                    SimplifiedElevations(coords,
                                                         fn_in.use_elevation,
                                                         fn_in.service),
                                message |-> ""]>>
                /\ fn_pc' = "consistency"
       ELSE /\ fn_out' = fn_out
            /\ fn_pc' = "consistency"
    /\ UNCHANGED <<fn_in, charge_out, record_out>>
    /\ UNCHANGED <<inputVars, runVars>>

\* lines 1029-1033: the route and its elevations go on to the simulation
CheckElevations ==
    /\ fn_pc = "consistency"
    /\ IF Len(fn_out[1].elevations) # Len(fn_out[1].coords)
       THEN /\ fn_out' = <<[fn_out[1] EXCEPT !.message =
                   "Inconsistent data: elevation and coordinate counts differ"]>>
            /\ fn_pc' = "stopped"
       ELSE /\ fn_out' = fn_out
            /\ fn_pc' = "retrieved"
    /\ UNCHANGED <<fn_in, charge_out, record_out>>
    /\ UNCHANGED <<inputVars, runVars>>

NextElev == NoRoute \/ FetchElevation \/ ShapeRoute \/ CheckElevations
SpecElev == InitElev /\ [][NextElev]_vars

\* the elevation service or the route itself gives one sample per point of
\* a route of more than 2 points, and the user asked for elevations
ElevationUsable ==
    LET route == fn_in.coords
    IN  /\ fn_in.use_elevation
        /\ Len(route) > 2
        /\ IF Len(route[1]) = 3
           THEN \A k \in 1..Len(route) : Len(route[k]) = 3
           ELSE fn_in.service.ok /\ Len(fn_in.service.samples) = Len(route)

\* C23: when the route goes to the simulation the elevation profile has
\* one sample per route point; an elevation result that is disabled,
\* unavailable, failed or of another length than the coordinates is
\* replaced by the all-zero profile, and the run never aborts for it (it
\* stops only when there is no route).
C23_ElevationPerPoint ==
    /\ fn_pc = "retrieved" =>
          /\ Len(fn_out[1].elevations) = Len(fn_out[1].coords)
          /\ ~ElevationUsable =>
                \A k \in 1..Len(fn_out[1].elevations) :
                    fn_out[1].elevations[k] = 0
    /\ fn_pc = "stopped" =>
          /\ Len(fn_in.coords) < 2
          /\ fn_out[1].message = "No route found."

\* three route points, five samples from the service: flat profile, run goes on
C23_Witness ==
    /\ fn_pc = "retrieved"
    /\ fn_in.use_elevation
    /\ Len(fn_in.coords) = 3
    /\ Len(fn_in.coords[1]) = 2
    /\ fn_in.service = ServiceSamples(<<110, 120, 130, 140, 150>>)
    /\ fn_out[1].elevations = <<0, 0, 0>>

\* the service's samples are used when their count matches
ElevationsUsed ==
    /\ fn_pc = "retrieved"
    /\ fn_in.service = ServiceSamples(<<110, 120, 130>>)
    /\ fn_out[1].elevations = <<110, 120, 130>>


(***************************************************************************)
(* C24: regeneration                                                       *)
(***************************************************************************)
\* the electrical power recovered at the wheels: what the traction adds to
\* the auxiliary power, negated
Recovered == RSub(fn_out[1].P_aux, fn_out[1].P_total)
\* |wheel power|, and |wheel power| x regen efficiency
Braked == [n |-> 0 - fn_out[1].P_wheels.n, d |-> fn_out[1].P_wheels.d]
RegenShare == RMul(Braked, fn_in.veh.regen_eff)
Braking == fn_pc = "powers" /\ fn_out[1].P_wheels.n < 0

RegenOff ==
    /\ Braking
    /\ fn_in.veh.regen_eff = Int2R(0)
    /\ fn_out[1].P_total = Int2R(2000)


(***************************************************************************)
(* C26: constant elevation                                                 *)
(***************************************************************************)
\* every elevation sample of the route equals the first
ConstantElevation ==
    \A k \in 1..Len(fn_in.route.elevations) :
        fn_in.route.elevations[k] = fn_in.route.elevations[1]

\* the speed leg k is driven at: the list's entry, the scalar, or what a
\* list of another length than the leg count stands for
DrivenAt(k) ==
    IF ~fn_in.speed_kmh.is_list THEN fn_in.speed_kmh.items[1]
    ELSE IF ~Mismatched THEN fn_in.speed_kmh.items[k]
    ELSE IF Len(fn_in.speed_kmh.items) > 0 THEN fn_in.speed_kmh.items[1]
    ELSE Int2R(50)

\* energy (Wh) of a level leg of d metres at speed_kmh: aerodynamic drag,
\* rolling resistance and auxiliaries only
LevelLegEnergy(d, speed_kmh) ==
    LET p == fn_in.veh
        v == RDiv(speed_kmh, Rat(36, 10))
        drag == RMul(RMul(RMul(Rat(1, 2), p.rho_air), p.cda), RMul(v, v))
        rolling == RMul(RMul(p.crr, p.mass_kg), Rat(981, 100))
        traction == RDiv(RMul(RAdd(drag, rolling), v), p.eta_drive)
        auxiliary == RMul(p.aux_power_kw, Int2R(1000))
        hours == RDiv(RDiv(d, v), Int2R(3600))
    IN  RMul(RMul(RAdd(traction, auxiliary), hours), p.batt_E_mult)

RECURSIVE LevelEnergy(_)
LevelEnergy(k) ==
    IF k = 0 THEN Int2R(0)
    ELSE IF Degenerate(k) THEN LevelEnergy(k - 1)
    ELSE RAdd(LevelEnergy(k - 1),
              LevelLegEnergy(RAbs(RSub(fn_in.route.coords[k + 1].pos,
                                       fn_in.route.coords[k].pos)),
                             DrivenAt(k)))

\* C26: when all elevation samples of the route are equal, the grade
\* passed to the segment model is exactly 0 on every simulated leg, and the
\* route energy is the sum of the aerodynamic, rolling and auxiliary terms
\* of the simulated legs: the grade force contributes nothing.
C26_ConstantElevationNoGrade ==
    (fn_pc = "route" /\ ConstantElevation) =>
        /\ \A k \in 1..Len(fn_out[2]) : fn_out[2][k] = Int2R(0)
        /\ fn_out[1][1] = LevelEnergy(LegCount)

\* three level legs at elevation 2000 m, driven at 90, 36 and 90 km/h
C26_Witness ==
    /\ fn_pc = "route"
    /\ ConstantElevation
    /\ fn_in.route.elevations = <<Int2R(2000), Int2R(2000), Int2R(2000), Int2R(2000)>>
    /\ \A leg \in Legs : ~Degenerate(leg)
    /\ fn_in.speed_kmh = SpeedList(<<Int2R(90), Int2R(36), Int2R(90)>>)
    /\ fn_out[2] = <<Int2R(0), Int2R(0), Int2R(0)>>
    /\ RLt(Int2R(0), fn_out[1][1])

\* on a climb the grade passed is the rise over the run
GradePassedOnClimb ==
    /\ fn_pc = "route"
    /\ Len(fn_in.route.coords) = 2
    /\ fn_out[2] = <<Rat(7, 24)>>


(***************************************************************************)
(* One turn of the candidate loop of run_btn, from the choice of the       *)
(* speed profile to the call of route_energy_time (lines 1113-1133).       *)
(***************************************************************************)
\* steps as ors_route_steps gives them: a plain turn, and a roundabout
\* entered after 80 m with a turn maneuver (a roundabout and a sharp turn)
CandidateStepPool == {
    [instruction |-> <<"T", "u", "r", "n", " ", "l", "e", "f", "t">>,
     type |-> 0, distance |-> 250],
    [instruction |-> <<"P", "r", "e", "n", "e", "z", " ", "l", "e", " ", "r", "o", "n", "d", "-", "p", "o", "i", "n", "t">>,
     type |-> 3, distance |-> 80] }
\* no segment, one segment of any kind, or one followed by an untyped one
CandidateSegments ==
    {segs \in SeqsUpTo(SegmentPool, 2) :
        Len(segs) = 2 => /\ segs[2].road_type = NoLabel
                         /\ segs[2].way_type = NoLabel
                         /\ segs[2].steps # <<>>}
\* what the user typed as candidate speeds (sorted), and the ceiling
TypedSpeeds == {<<20, 90>>, <<>>}
\* the routes of 1..MaxLegs legs
CandidateRoutes ==
    {PointsAlong(lengths) :
        lengths \in (SeqsUpTo(LegLengths, MaxLegs) \ {<<>>}) \cup UnequalLegs}

\* v is any candidate of candidates (line 1113)
CandidateInputs ==
    {x \in [coords : CandidateRoutes,
            steps : SeqsUpTo(CandidateStepPool, MaxSteps),
            detailed_segments : CandidateSegments,
            candidate_speeds : TypedSpeeds,
            user_speed_limit : {50, 130},
            v : {20, 50, 90, 130},
            min_speed_delta : {0, 50},
            use_segmented_speeds : BOOLEAN] :
        \E k \in 1..Len(FilterCandidates(x.candidate_speeds, x.user_speed_limit)) :
            x.v = FilterCandidates(x.candidate_speeds, x.user_speed_limit)[k]}

InitCandidate ==
    /\ RunIdle
    /\ fn_pc = "candidate"
    /\ fn_in \in CandidateInputs
    /\ charge_out = <<>>
    /\ record_out = <<>>
    /\ fn_out = <<>>

\* line 1118: use_segmented_speeds and steps and detailed_segments
SegmentedBranch ==
    /\ fn_in.use_segmented_speeds
    /\ fn_in.steps # <<>>
    /\ fn_in.detailed_segments # <<>>

\* line 1119; built keeps the list as create_segmented_speeds returned it,
\* slowdown_points is intersection_data["slowdown_points"] (line 1067)
BuildSegmentedSpeeds ==
    /\ fn_pc = "candidate"
    /\ SegmentedBranch
    /\ LET built == create_segmented_speeds(fn_in.coords, fn_in.steps,
                                            fn_in.detailed_segments, fn_in.v,
                                            fn_in.user_speed_limit,
                                            fn_in.min_speed_delta)
       IN  fn_out' = <<[built |-> built,
                        segmented_speeds |->
                            [k \in 1..Len(built) |-> Int2R(built[k])],
                        slowdown_points |->
                            detect_intersections_improved(fn_in.steps).slowdown_points,
                        next |-> 1,
                        speed_kmh |-> <<>>]>>
    /\ fn_pc' = "slowdowns"
    /\ UNCHANGED <<fn_in, charge_out, record_out>>
    /\ UNCHANGED <<inputVars, runVars>>

\* lines 1121-1128, one turn of the loop over the slowdown points
SlowDownLeg ==
    /\ fn_pc = "slowdowns"
    /\ fn_out[1].next <= Len(fn_out[1].slowdown_points)
    /\ fn_out' = <<[fn_out[1] EXCEPT
                      !.segmented_speeds =
                          Slowed(@, fn_out[1].slowdown_points[fn_out[1].next],
                                 Len(fn_in.steps), Len(fn_in.coords)),
                      !.next = @ + 1]>>
    /\ UNCHANGED <<fn_pc, fn_in, charge_out, record_out>>
    /\ UNCHANGED <<inputVars, runVars>>

\* line 1130: route_energy_time(coords, elevations, segmented_speeds, **veh);
\* speed_kmh is the speed argument after lines 555-559 of the simulator
SimulateSegmented ==
    /\ fn_pc = "slowdowns"
    /\ fn_out[1].next > Len(fn_out[1].slowdown_points)
    /\ fn_out' = <<[fn_out[1] EXCEPT
                      !.speed_kmh = SpeedArg(SpeedList(fn_out[1].segmented_speeds),
                                             fn_in.coords)]>>
    /\ fn_pc' = "simulate"
    /\ UNCHANGED <<fn_in, charge_out, record_out>>
    /\ UNCHANGED <<inputVars, runVars>>

\* line 1133: route_energy_time(coords, elevations, v, **veh)
SimulateScalar ==
    /\ fn_pc = "candidate"
    /\ ~SegmentedBranch
    /\ fn_out' = <<[built |-> <<>>, segmented_speeds |-> <<>>,
                    slowdown_points |-> <<>>, next |-> 1,
                    speed_kmh |-> SpeedArg(Scalar(Int2R(fn_in.v)),
                                           fn_in.coords)]>>
    /\ fn_pc' = "simulate"
    /\ UNCHANGED <<fn_in, charge_out, record_out>>
    /\ UNCHANGED <<inputVars, runVars>>

NextCandidate ==
    BuildSegmentedSpeeds \/ SlowDownLeg \/ SimulateSegmented \/ SimulateScalar
SpecCandidate == InitCandidate /\ [][NextCandidate]_vars


\* C27: for a route of at least 2 points and any steps and segments,
\* create_segmented_speeds returns one speed per leg, the slowdown points
\* keep that length, and the list reaches the route simulator as a list:
\* the simulator's fallback for a list of another length is not taken.
C27_OneSpeedPerLeg ==
    (fn_pc \in {"slowdowns", "simulate"} /\ SegmentedBranch) =>
        /\ Len(fn_in.coords) >= 2
        /\ Len(fn_out[1].built) = Len(fn_in.coords) - 1
        /\ Len(fn_out[1].segmented_speeds) = Len(fn_in.coords) - 1
        /\ fn_pc = "simulate" =>
              /\ fn_out[1].speed_kmh.is_list
              /\ fn_out[1].speed_kmh.items = fn_out[1].segmented_speeds

\* three legs, classified by a motorway segment, two slowdown points
\* applied, the list of three speeds handed over
C27_Witness ==
    /\ fn_pc = "simulate"
    /\ SegmentedBranch
    /\ Len(fn_in.coords) = 4
    /\ Len(fn_out[1].slowdown_points) = 2
    /\ fn_in.v = 130
    /\ fn_out[1].built = <<130, 130, 130>>
    /\ fn_out[1].speed_kmh.is_list
    /\ Len(fn_out[1].speed_kmh.items) = 3
    /\ \E leg \in 1..3 : fn_out[1].speed_kmh.items[leg] = Rat(637, 10)


\* C28: applying the slowdown points never increases the speed of a leg:
\* after any number of them every leg's speed is at most the speed
\* create_segmented_speeds gave it.
C28_SlowdownNeverSpeedsUp ==
    (fn_pc \in {"slowdowns", "simulate"} /\ SegmentedBranch) =>
        \A leg \in 1..Len(fn_out[1].built) :
            fn_out[1].segmented_speeds[leg].n
                <= fn_out[1].built[leg] * fn_out[1].segmented_speeds[leg].d

\* the candidate 20 km/h on a leg no segment classifies, at a roundabout:
\* the leg is driven at 30 km/h
SlowdownSpeedsUp ==
    /\ fn_pc = "simulate"
    /\ SegmentedBranch
    /\ fn_in.v = 20
    /\ fn_out[1].built = <<20>>
    /\ fn_out[1].speed_kmh = SpeedList(<<Int2R(30)>>)

\* from 30 km/h on, the slowdown points only lower a leg's speed
SlowdownLowersFrom30 ==
    (fn_pc \in {"slowdowns", "simulate"} /\ SegmentedBranch) =>
        \A leg \in 1..Len(fn_out[1].built) :
            fn_out[1].built[leg] >= 30 =>
                fn_out[1].segmented_speeds[leg].n
                    <= fn_out[1].built[leg] * fn_out[1].segmented_speeds[leg].d


(***************************************************************************)
(* C29: the fastest and the best candidate against the feasible set        *)
(***************************************************************************)
\* the results of least total time
Quickest == {r \in Elems(results) : r.total_time_min = LeastTotal(results)}

\* C29 as stated: once a candidate has succeeded, the fastest candidate is
\* in the feasible set (which is therefore not empty), the best candidate
\* is in the feasible set under both objectives, and the best candidate's
\* total time is at most fastest total time * (1 + maxTimePenaltyPct/100).
C29_BestWithinWindow ==
    (pc = "done" /\ max_time_penalty_pct >= 0) =>
        /\ fastest[1] \in Quickest
        /\ fastest[1] \in Elems(feasible)
        /\ feasible # <<>>
        /\ best[1] \in Elems(feasible)
        /\ InWindow(best[1].total_time_min, LeastTotal(results),
                    max_time_penalty_pct)

\* C29 as amended: the same, the bound on the best candidate's total time
\* holding when the fastest total time is positive; when it is 0 the
\* feasible set is all successful candidates.
C29_BestFeasible ==
    (pc = "done" /\ max_time_penalty_pct >= 0) =>
        /\ fastest[1] \in Quickest
        /\ fastest[1] \in Elems(feasible)
        /\ feasible # <<>>
        /\ best[1] \in Elems(feasible)
        /\ LeastTotal(results).n > 0 =>
              InWindow(best[1].total_time_min, LeastTotal(results),
                       max_time_penalty_pct)
        /\ LeastTotal(results).n = 0 => feasible = results

\* three results of 60, 55 and 50 min at 0 %: only the fastest is feasible
C29_Witness ==
    /\ pc = "done"
    /\ max_time_penalty_pct = 0
    /\ Len(results) = 3
    /\ results[1].total_time_min = Int2R(60)
    /\ results[2].total_time_min = Int2R(55)
    /\ results[3].total_time_min = Int2R(50)
    /\ feasible = <<results[3]>>
    /\ best[1] = results[3]
    /\ fastest[1] = results[3]

\* a candidate that takes no time and one that recovers energy over an
\* hour: the latter is selected
BestSlowerThanFastest ==
    /\ pc = "done"
    /\ fastest[1].total_time_min = Int2R(0)
    /\ best[1].total_time_min = Int2R(60)
    /\ best[1].energy_Wh = Int2R(0 - 2000)


\* speed (a rational) <= ceiling (an integer)
AtMost(speed, ceiling) == speed.n <= ceiling * speed.d

\* C30: with a user speed ceiling >= 50 and minSpeedDelta >= 0, no per-leg
\* speed exceeds the ceiling: not in the list create_segmented_speeds
\* builds, not after any slowdown point, and not in what the route
\* simulator is called with, for every candidate and labelling.
C30_NoLegAboveCeiling ==
    (fn_pc \in {"slowdowns", "simulate"}
        /\ fn_in.user_speed_limit >= 50 /\ fn_in.min_speed_delta >= 0) =>
        /\ \A leg \in 1..Len(fn_out[1].built) :
              fn_out[1].built[leg] <= fn_in.user_speed_limit
        /\ \A leg \in 1..Len(fn_out[1].segmented_speeds) :
              AtMost(fn_out[1].segmented_speeds[leg], fn_in.user_speed_limit)
        /\ fn_pc = "simulate" =>
              \A leg \in 1..Len(fn_out[1].speed_kmh.items) :
                  AtMost(fn_out[1].speed_kmh.items[leg], fn_in.user_speed_limit)

\* ceiling 50, candidate 50, a motorway segment and an untyped one with a
\* roundabout taken with a sharp turn: the legs are driven at 50 and 30
C30_Witness ==
    /\ fn_pc = "simulate"
    /\ SegmentedBranch
    /\ fn_in.user_speed_limit = 50
    /\ fn_in.v = 50
    /\ Len(fn_in.detailed_segments) = 2
    /\ fn_in.detailed_segments[1].steps # <<>>
    /\ fn_in.detailed_segments[1].steps[1].road_type = <<"m", "o", "t", "o", "r", "w", "a", "y">>
    /\ Len(fn_out[1].slowdown_points) > 0
    /\ fn_out[1].built = <<50, 50>>
    /\ fn_out[1].speed_kmh.is_list
    /\ \E leg \in 1..2 : fn_out[1].speed_kmh.items[leg] = Int2R(30)

=============================================================================
